---- MODULE Spec2Model ----
(***************************************************************************)
(* Hierarchical logic-network synthesis (caterpillar): the mapping         *)
(* strategies (Bennett, Bennett in-place, pebbling), the ancilla pool and  *)
(* the per-node reversible expansion, driven by                            *)
(* logic_network_synthesis_impl::run.                                      *)
(*                                                                         *)
(* A logic network has its constant nodes first (one node, holding false,  *)
(* in the AND/XOR/MAJ network types, where constant true is its            *)
(* complement; two nodes, false and true, in a k-LUT network), the primary *)
(* inputs next, and one node per gate after them, each gate reading nodes  *)
(* of smaller index through signed fan-ins.  A qubit's value is kept for   *)
(* all input assignments at once: it is the set of input assignments under *)
(* which the qubit holds 1.                                                *)
(***************************************************************************)
EXTENDS Integers, Sequences, FiniteSets, TLC

\* ---- bounds of the model ------------------------------------------------
\* networks of the full runs: primary inputs, gates, primary outputs and
\* complemented fan-ins per gate
RunPis == 2

MaxGates == 2

MaxPos == 1

MaxCompl == 1

\* networks the strategy constructors are run on alone
StrategyPis == 1

StrategyGates == 3

StrategyPos == 2

MaxPebbleLimit == 2

\* networks the preparation of inputs and constants is run on alone
PreparePis == 1

PrepareGates == 1

PreparePos == 1

\* primary inputs of the one-gate networks the node expander is run on alone
ExpanderPis == 4

\* primary inputs of the one-node networks with two constant nodes, and the
\* largest number of fan-ins of their truth-table node
TwoConstantPis == 3

LutArity == 2

\* primary inputs of the networks replayed under a step stream of the caller's,
\* and the longest such stream
StreamPis == 1

MaxStream == 5

\* ---- logic network ------------------------------------------------------
Pis(net) == net.num_constants..(net.num_constants + net.num_pis - 1)

\* an input assignment is the set of primary inputs that are true
Assignments(net) == SUBSET Pis(net)

Zero == {}

Xor(v, w) == (v \ w) \cup (w \ v)

And(v, w) == v \cap w

Or(v, w) == v \cup w

Maj(u, v, w) == (u \cap v) \cup (u \cap w) \cup (v \cap w)

Pol(all, v, p) == IF p THEN all \ v ELSE v

Range(s) == {s[i] : i \in 1..Len(s)}

BinaryKinds == {"and", "or", "xor"}

TernaryKinds == {"xor3", "maj"}

Signal(n, c) == [index |-> n, complement |-> c]

\* fan-ins are kept sorted by node index, as the network's create_* functions order them
Fanins2(n) ==
  {<<Signal(a, pa), Signal(b, pb)>> :
      a \in 0..(n - 2), b \in 1..(n - 1), pa \in BOOLEAN, pb \in BOOLEAN}

Fanins3(n) ==
  {<<Signal(a, pa), Signal(b, pb), Signal(c, pc3)>> :
      a \in 0..(n - 3), b \in 1..(n - 2), c \in 2..(n - 1),
      pa \in BOOLEAN, pb \in BOOLEAN, pc3 \in BOOLEAN}

Sorted(f) == \A i \in 1..(Len(f) - 1) : f[i].index < f[i + 1].index

NumCompl(f) == Cardinality({i \in 1..Len(f) : f[i].complement})

\* the gates that can be created as node n, with at most maxc complemented fan-ins
GateChoices(n, maxc) ==
  {[kind |-> k, fanin |-> f] :
      k \in BinaryKinds, f \in {g \in Fanins2(n) : Sorted(g) /\ NumCompl(g) <= maxc}} \cup
  {[kind |-> k, fanin |-> f] :
      k \in TernaryKinds, f \in {g \in Fanins3(n) : Sorted(g) /\ NumCompl(g) <= maxc}}

\* the sequences of g gates created after the nodes 0..last
RECURSIVE GateSeqs(_, _, _)
GateSeqs(last, g, maxc) ==
  IF g = 0 THEN {<<>>}
  ELSE {Append(s, x) : s \in GateSeqs(last, g - 1, maxc), x \in GateChoices(last + g, maxc)}

DistinctSeq(s) == \A i \in 1..Len(s) : \A j \in 1..Len(s) : i # j => s[i] # s[j]

\* the fan-ins of a k-LUT node created as node n: plain references, in any order
LutFanins(n) ==
  {<<Signal(a, FALSE)>> : a \in 0..(n - 1)} \cup
  {<<Signal(a, FALSE), Signal(b, FALSE)>> : a \in 0..(n - 1), b \in 0..(n - 1)}

LutChoices(n) == {[kind |-> "lut", fanin |-> f] : f \in {g \in LutFanins(n) : DistinctSeq(g)}}

\* a truth table over k inputs is the set of input patterns it maps to 1, a
\* pattern being the set of the fan-in positions that are 1
Patterns(k) == SUBSET (1..k)

\* kitty::create_parity: 1 on the patterns with an odd number of ones
create_parity(k) == {x \in Patterns(k) : Cardinality(x) % 2 = 1}

RECURSIVE PlainFanins(_, _)
PlainFanins(n, k) ==
  IF k = 0 THEN {<<>>}
  ELSE {Append(f, Signal(a, FALSE)) : f \in PlainFanins(n, k - 1), a \in 0..(n - 1)}

\* the k-LUT nodes with up to maxk fan-ins that can be created as node n, each
\* with its truth table
LutNodes(n, maxk) ==
  UNION {{[kind |-> "lut", fanin |-> f, function |-> tt] :
            f \in {g \in PlainFanins(n, k) : DistinctSeq(g)}, tt \in SUBSET Patterns(k)} :
         k \in 1..maxk}

\* the sequences of g k-LUT nodes created after the nodes 0..last; the
\* preparation does not read a node's truth table, so these carry none
RECURSIVE LutSeqs(_, _)
LutSeqs(last, g) ==
  IF g = 0 THEN {<<>>}
  ELSE {Append(s, x) : s \in LutSeqs(last, g - 1), x \in LutChoices(last + g)}

\* primary outputs: k driver nodes in any order
RECURSIVE PoSeqs(_, _)
PoSeqs(nodes, k) ==
  IF k = 0 THEN {<<>>}
  ELSE {Append(s, n) : s \in PoSeqs(nodes, k - 1), n \in nodes}

size(net) == net.num_constants + net.num_pis + Len(net.gates)

Nodes(net) == 0..(size(net) - 1)

is_constant(net, n) == n \in 0..(net.num_constants - 1)

is_pi(net, n) == n \in Pis(net)

is_gate(net, n) == n \in (net.num_constants + net.num_pis)..(size(net) - 1)

Gate(net, n) == net.gates[n - (net.num_constants + net.num_pis) + 1]

Fanin(net, n) == IF is_gate(net, n) THEN Gate(net, n).fanin ELSE <<>>

FaninNodes(net, n) == {Fanin(net, n)[i].index : i \in 1..Len(Fanin(net, n))}

is_xor(net, n) == is_gate(net, n) /\ Gate(net, n).kind = "xor"

is_xor3(net, n) == is_gate(net, n) /\ Gate(net, n).kind = "xor3"

\* number of fan-in edges and primary outputs that refer to node n
fanout_size(net, n) ==
  Cardinality({<<g, i>> \in (1..Len(net.gates)) \X (1..3) :
                 i <= Len(net.gates[g].fanin) /\ net.gates[g].fanin[i].index = n})
  + Cardinality({i \in 1..Len(net.pos) : net.pos[i] = n})

Drivers(net) == Range(net.pos)

node_function(net, n) == Gate(net, n).function

\* the first constant node holds false; a second one, if any, holds true
constant_value(net, n) == n = 1 /\ net.num_constants = 2

\* the Boolean function of a node over the primary inputs
RECURSIVE NodeFunction(_, _)
NodeFunction(net, n) ==
  IF is_constant(net, n) THEN (IF constant_value(net, n) THEN Assignments(net) ELSE Zero)
  ELSE IF is_pi(net, n) THEN {a \in Assignments(net) : n \in a}
  ELSE LET g == Gate(net, n)
           in(i) == Pol(Assignments(net), NodeFunction(net, g.fanin[i].index),
                        g.fanin[i].complement)
       IN CASE g.kind = "and" -> And(in(1), in(2))
            [] g.kind = "or" -> Or(in(1), in(2))
            [] g.kind = "xor" -> Xor(in(1), in(2))
            [] g.kind = "xor3" -> Xor(Xor(in(1), in(2)), in(3))
            [] g.kind = "maj" -> Maj(in(1), in(2), in(3))

\* ---- topological view ---------------------------------------------------
RECURSIVE create_topo_rec(_, _, _)
RECURSIVE topo_fanins(_, _, _, _)
topo_fanins(net, f, i, order) ==
  IF i > Len(f) THEN order
  ELSE topo_fanins(net, f, i + 1, create_topo_rec(net, f[i].index, order))

create_topo_rec(net, n, order) ==
  IF n \in Range(order) THEN order
  ELSE Append(topo_fanins(net, Fanin(net, n), 1, order), n)

RECURSIVE topo_pos(_, _, _)
topo_pos(net, i, order) ==
  IF i > Len(net.pos) THEN order
  ELSE topo_pos(net, i + 1, create_topo_rec(net, net.pos[i], order))

\* constant, primary inputs, then the cones of the primary outputs, fan-ins first
topo_view(net) ==
  topo_pos(net, 1, [i \in 1..(net.num_constants + net.num_pis) |-> i - 1])

\* walks the topological view instead of the network
foreach_node_topo(net) == topo_view(net)

\* all nodes in index order
foreach_node(net) == [i \in 1..size(net) |-> i - 1]

\* ---- program constants ---------------------------------------------------
\* default of the pebbles argument of the pebbling strategy's constructor
DefaultPebbles == 0

\* initial value of the pebbling strategy's limit_ member
DefaultLimit == 50

\* ---- state --------------------------------------------------------------
VARIABLES
  ntk,                \* the logic network
  strategy,           \* the MappingStrategy template argument
  ps,                 \* logic_network_synthesis_params
  pc,                 \* position in run()
  order,              \* the node sequence the strategy's constructor walks
  vi,                 \* position of the walk in order
  steps,              \* the strategy's step list
  it,                 \* the insertion iterator into steps (1 = begin)
  value,              \* the network's per-node value field (reference counters)
  target,             \* the in-place target found for the node visited last (-1 = none)
  solver_pebbles,     \* the pebble limit the pebble solver was invoked with
  limit_,             \* the pebbling strategy's limit_ member
  node_to_qubit,      \* node_map<uint32_t>
  qnet,               \* the quantum network: number of qubits and gate list
  qval,               \* value of every qubit, for all input assignments at once
  free_ancillae,      \* stack of free qubits, top last
  st,                 \* logic_network_synthesis_stats
  si,                 \* position of foreach_step in steps
  errs                \* number of diagnostics written to the error sink

vars == <<ntk, strategy, ps, pc, order, vi, steps, it, value, target, solver_pebbles,
          limit_, node_to_qubit, qnet, qval, free_ancillae, st, si, errs>>

strategyVars == <<order, vi, steps, it, value, target, solver_pebbles, limit_>>

driverVars == <<node_to_qubit, qnet, qval, free_ancillae, st, si, errs>>

\* ---- mapping strategies -------------------------------------------------
Step(n, a) == [node |-> n, action |-> a]

InplaceStep(n, a, t) == [node |-> n, action |-> a, target_index |-> t]

\* std::vector::insert before position i
InsertAt(s, i, x) == SubSeq(s, 1, i - 1) \o <<x>> \o SubSeq(s, i, Len(s))

\* advances the iterator past the uncompute step as well
insert_compute_adjacent(net, s, i, n) ==
  LET s1 == InsertAt(s, i, Step(n, "compute"))
      i1 == i + 1
  IN IF n \notin Drivers(net)
     THEN [steps |-> InsertAt(s1, i1, Step(n, "uncompute")), it |-> i1 + 1]
     ELSE [steps |-> s1, it |-> i1]

\* puts the uncompute step before the compute step
insert_compute_reversed(net, s, i, n) ==
  LET s1 == InsertAt(s, i, Step(n, "compute"))
  IN IF n \notin Drivers(net)
     THEN [steps |-> InsertAt(s1, i, Step(n, "uncompute")), it |-> i]
     ELSE [steps |-> s1, it |-> i + 1]

\* puts the uncompute step at the end of the list
insert_compute_append(net, s, i, n) ==
  LET s1 == InsertAt(s, i, Step(n, "compute"))
      i1 == i + 1
  IN IF n \notin Drivers(net)
     THEN [steps |-> Append(s1, Step(n, "uncompute")), it |-> i1]
     ELSE [steps |-> s1, it |-> i1]

\* the compute step and, for a non-driver, the uncompute step of node n; the
\* iterator is left on the uncompute step, so later nodes are inserted before it
insert_compute(net, s, i, n) ==
  LET s1 == InsertAt(s, i, Step(n, "compute"))
      i1 == i + 1
  IN IF n \notin Drivers(net)
     THEN [steps |-> InsertAt(s1, i1, Step(n, "uncompute")), it |-> i1]
     ELSE [steps |-> s1, it |-> i1]

\* body of the lambda of bennett_mapping_strategy's constructor
bennett_visit(net, s, i, n) ==
  IF is_constant(net, n) \/ is_pi(net, n) THEN [steps |-> s, it |-> i]
  ELSE insert_compute(net, s, i, n)

\* lets a later fan-in that reaches zero replace the target
RECURSIVE decr_fanins_last(_, _, _, _)
decr_fanins_last(f, i, val, tgt) ==
  IF i > Len(f) THEN [value |-> val, target |-> tgt]
  ELSE LET m == f[i].index
           v == val[m] - 1
       IN decr_fanins_last(f, i + 1, [val EXCEPT ![m] = v], IF v = 0 THEN m ELSE tgt)

\* foreach_fanin of the in-place strategy: decrement the counters, keep the first
\* fan-in whose counter reaches zero
RECURSIVE decr_fanins(_, _, _, _)
decr_fanins(f, i, val, tgt) ==
  IF i > Len(f) THEN [value |-> val, target |-> tgt]
  ELSE LET m == f[i].index
           v == val[m] - 1
       IN decr_fanins(f, i + 1, [val EXCEPT ![m] = v],
                      IF v = 0 /\ tgt = -1 THEN m ELSE tgt)

\* advances the iterator past the uncompute-in-place step as well
insert_inplace_adjacent(s, i, n, tgt) ==
  LET s1 == InsertAt(s, i, InplaceStep(n, "compute_inplace", tgt))
      i1 == i + 1
  IN [steps |-> InsertAt(s1, i1, InplaceStep(n, "uncompute_inplace", tgt)), it |-> i1 + 1]

\* pairs the in-place compute with an out-of-place uncompute step
insert_inplace_releasing(s, i, n, tgt) ==
  LET s1 == InsertAt(s, i, InplaceStep(n, "compute_inplace", tgt))
      i1 == i + 1
  IN [steps |-> InsertAt(s1, i1, InplaceStep(n, "uncompute", tgt)), it |-> i1]

\* inserts the compute-in-place step alone
insert_inplace_compute_only(s, i, n, tgt) ==
  [steps |-> InsertAt(s, i, InplaceStep(n, "compute_inplace", tgt)), it |-> i + 1]

\* the compute-in-place step and the uncompute-in-place step of node n; the
\* iterator is left on the latter
insert_inplace(s, i, n, tgt) ==
  LET s1 == InsertAt(s, i, InplaceStep(n, "compute_inplace", tgt))
      i1 == i + 1
  IN [steps |-> InsertAt(s1, i1, InplaceStep(n, "uncompute_inplace", tgt)), it |-> i1]

\* computes a primary-output driver in-place as well
inplace_emit_drivers(net, s, i, n, tgt) ==
  IF tgt # -1 /\ (is_xor(net, n) \/ is_xor3(net, n))
  THEN insert_inplace(s, i, n, tgt)
  ELSE insert_compute(net, s, i, n)

\* computes a gate of any kind in-place
inplace_emit_any_kind(net, s, i, n, tgt) ==
  IF tgt # -1 /\ n \notin Drivers(net)
  THEN insert_inplace(s, i, n, tgt)
  ELSE insert_compute(net, s, i, n)

\* computes every gate out-of-place
inplace_emit_never(net, s, i, n, tgt) == insert_compute(net, s, i, n)

\* the choice between in-place and out-of-place for gate n with candidate tgt
inplace_emit(net, s, i, n, tgt) ==
  IF tgt # -1 /\ n \notin Drivers(net) /\ (is_xor(net, n) \/ is_xor3(net, n))
  THEN insert_inplace(s, i, n, tgt)
  ELSE insert_compute(net, s, i, n)

\* body of the lambda of bennett_inplace_mapping_strategy's constructor
inplace_visit(net, s, i, val, n) ==
  IF is_constant(net, n) \/ is_pi(net, n)
  THEN [steps |-> s, it |-> i, value |-> val, target |-> -1]
  ELSE LET rc == decr_fanins(Fanin(net, n), 1, val, -1)
           e == inplace_emit(net, s, i, n, rc.target)
       IN [steps |-> e.steps, it |-> e.it, value |-> rc.value, target |-> rc.target]

\* the pebble solver: an ordered list of steps that keeps at most `pebbles` gates
\* live at once (0 = no limit: compute every gate, uncompute the non-drivers in
\* reverse), or no step at all when it finds no schedule
RECURSIVE solver_schedule(_, _, _, _)
solver_schedule(net, s, i, g) ==
  IF g > Len(net.gates) THEN s
  ELSE LET e == insert_compute(net, s, i, net.num_constants + net.num_pis + g - 1)
       IN solver_schedule(net, e.steps, e.it, g + 1)

pebble_solver_steps(net, pebbles) ==
  IF pebbles = 0 \/ pebbles >= Len(net.gates)
  THEN solver_schedule(net, <<>>, 1, 1)
  ELSE <<>>

\* ---- quantum gates -------------------------------------------------------
X(t) == [kind |-> "pauli_x", controls |-> <<>>, target |-> t]

CX(c, t) == [kind |-> "cx", controls |-> <<c>>, target |-> t]

MCX(cs, t) == [kind |-> "mcx", controls |-> cs, target |-> t]

\* the single-target gate the synthesis callback is called for: the function of
\* the qubits before the last one is added to the last one
Stg(function, qubit_map) ==
  [kind |-> "stg", controls |-> SubSeq(qubit_map, 1, Len(qubit_map) - 1),
   target |-> qubit_map[Len(qubit_map)], function |-> function]

If(b, gs) == IF b THEN gs ELSE <<>>

\* the target is flipped under the assignments for which every control holds 1
ApplyGate(all, qv, g) ==
  IF g.kind = "stg"
  THEN [qv EXCEPT ![g.target] =
          Xor(@, {a \in all :
                    {i \in 1..Len(g.controls) : a \in qv[g.controls[i]]} \in g.function})]
  ELSE [qv EXCEPT ![g.target] =
          Xor(@, {a \in all : \A i \in 1..Len(g.controls) : a \in qv[g.controls[i]]})]

RECURSIVE ApplyFrom(_, _, _, _)
ApplyFrom(all, qv, gs, i) ==
  IF i > Len(gs) THEN qv ELSE ApplyFrom(all, ApplyGate(all, qv, gs[i]), gs, i + 1)

\* the qubit values after the gates gs, over the input assignments all
ApplyGates(all, qv, gs) == ApplyFrom(all, qv, gs, 1)

\* ---- node expander ------------------------------------------------------
\* leaves the complemented fan-ins flipped
compute_and_flips_kept(c1, c2, p1, p2, t) ==
  If(p1, <<X(c1)>>) \o If(p2, <<X(c2)>>) \o <<MCX(<<c1, c2>>, t)>>

compute_and(c1, c2, p1, p2, t) ==
  If(p1, <<X(c1)>>) \o If(p2, <<X(c2)>>) \o <<MCX(<<c1, c2>>, t)>> \o
  If(p2, <<X(c2)>>) \o If(p1, <<X(c1)>>)

\* flips the complemented fan-ins instead of the plain ones
compute_or_flipped(c1, c2, p1, p2, t) ==
  If(p1, <<X(c1)>>) \o If(p2, <<X(c2)>>) \o <<MCX(<<c1, c2>>, t), X(t)>> \o
  If(p2, <<X(c2)>>) \o If(p1, <<X(c1)>>)

\* does not undo the flips of the plain fan-ins
compute_or_unrestored(c1, c2, p1, p2, t) ==
  If(~p1, <<X(c1)>>) \o If(~p2, <<X(c2)>>) \o <<MCX(<<c1, c2>>, t), X(t)>>

compute_or(c1, c2, p1, p2, t) ==
  If(~p1, <<X(c1)>>) \o If(~p2, <<X(c2)>>) \o <<MCX(<<c1, c2>>, t), X(t)>> \o
  If(~p2, <<X(c2)>>) \o If(~p1, <<X(c1)>>)

compute_xor(c1, c2, inv, t) == <<CX(c1, t), CX(c2, t)>> \o If(inv, <<X(t)>>)

compute_xor3(c1, c2, c3, inv, t) == <<CX(c1, t), CX(c2, t), CX(c3, t)>> \o If(inv, <<X(t)>>)

\* treats the second control like the other two
compute_maj_plain_c2(c1, c2, c3, p1, p2, p3, t) ==
  If(p1, <<X(c1)>>) \o If(p2, <<X(c2)>>) \o If(p3, <<X(c3)>>) \o
  <<CX(c1, c2), CX(c3, c1), CX(c3, t), MCX(<<c1, c2>>, t), CX(c3, c1), CX(c1, c2)>> \o
  If(p3, <<X(c3)>>) \o If(p2, <<X(c2)>>) \o If(p1, <<X(c1)>>)

\* leaves the first two controls as the majority gadget's CX gates changed them
compute_maj_unrestored(c1, c2, c3, p1, p2, p3, t) ==
  If(p1, <<X(c1)>>) \o If(~p2, <<X(c2)>>) \o If(p3, <<X(c3)>>) \o
  <<CX(c1, c2), CX(c3, c1), CX(c3, t), MCX(<<c1, c2>>, t)>> \o
  If(p3, <<X(c3)>>) \o If(~p2, <<X(c2)>>) \o If(p1, <<X(c1)>>)

compute_maj(c1, c2, c3, p1, p2, p3, t) ==
  If(p1, <<X(c1)>>) \o If(~p2, <<X(c2)>>) \o If(p3, <<X(c3)>>) \o
  <<CX(c1, c2), CX(c3, c1), CX(c3, t), MCX(<<c1, c2>>, t), CX(c3, c1), CX(c1, c2)>> \o
  If(p3, <<X(c3)>>) \o If(~p2, <<X(c2)>>) \o If(p1, <<X(c1)>>)

\* adds every control to the target, the target itself included
compute_xor_block_all(controls, t) == [i \in 1..Len(controls) |-> CX(controls[i], t)]

compute_xor_block(controls, t) ==
  LET cs == SelectSeq(controls, LAMBDA c : c # t)
  IN [i \in 1..Len(cs) |-> CX(cs[i], t)]

\* stg_fn( qnet, function, controls ++ [t] )
compute_lut(function, controls, t) == <<Stg(function, Append(controls, t))>>

\* writes no diagnostic when neither fan-in qubit is the target
compute_xor_inplace_silent(c1, c2, inv, t) ==
  LET r == IF c1 = t THEN [gates |-> <<CX(c2, c1)>>, errs |-> 0]
           ELSE IF c2 = t THEN [gates |-> <<CX(c1, c2)>>, errs |-> 0]
           ELSE [gates |-> <<>>, errs |-> 0]
  IN [gates |-> r.gates \o If(inv, <<X(t)>>), errs |-> r.errs]

compute_xor_inplace(c1, c2, inv, t) ==
  LET r == IF c1 = t THEN [gates |-> <<CX(c2, c1)>>, errs |-> 0]
           ELSE IF c2 = t THEN [gates |-> <<CX(c1, c2)>>, errs |-> 0]
           ELSE [gates |-> <<>>, errs |-> 1]
  IN [gates |-> r.gates \o If(inv, <<X(t)>>), errs |-> r.errs]

\* adds only the first of the two other fan-ins to the target
compute_xor3_inplace_single(c1, c2, c3, inv, t) ==
  LET r == IF c1 = t THEN [gates |-> <<CX(c2, c1)>>, errs |-> 0]
           ELSE IF c2 = t THEN [gates |-> <<CX(c1, c2)>>, errs |-> 0]
           ELSE IF c3 = t THEN [gates |-> <<CX(c1, c3)>>, errs |-> 0]
           ELSE [gates |-> <<>>, errs |-> 1]
  IN [gates |-> r.gates \o If(inv, <<X(t)>>), errs |-> r.errs]

compute_xor3_inplace(c1, c2, c3, inv, t) ==
  LET r == IF c1 = t THEN [gates |-> <<CX(c2, c1), CX(c3, c1)>>, errs |-> 0]
           ELSE IF c2 = t THEN [gates |-> <<CX(c1, c2), CX(c3, c2)>>, errs |-> 0]
           ELSE IF c3 = t THEN [gates |-> <<CX(c1, c3), CX(c2, c3)>>, errs |-> 0]
           ELSE [gates |-> <<>>, errs |-> 1]
  IN [gates |-> r.gates \o If(inv, <<X(t)>>), errs |-> r.errs]

\* (index << 1) | complement, for every fan-in
get_fanin_as_literals(net, n) ==
  [i \in 1..Len(Fanin(net, n)) |->
     Fanin(net, n)[i].index * 2 + (IF Fanin(net, n)[i].complement THEN 1 ELSE 0)]

\* the qubits of the fan-ins, which are not complemented
get_fanin_as_qubits(net, n2q, n) == [i \in 1..Len(Fanin(net, n)) |-> n2q[Fanin(net, n)[i].index]]

\* expands a MAJ with a constant first fan-in by the majority gadget, too
compute_node_unfolded(net, n2q, node, t) ==
  LET controls == get_fanin_as_literals(net, node)
      q(i) == n2q[controls[i] \div 2]
      p(i) == controls[i] % 2 = 1
      kind == Gate(net, node).kind
  IN IF kind = "and" THEN compute_and(q(1), q(2), p(1), p(2), t)
     ELSE IF kind = "or" THEN compute_or(q(1), q(2), p(1), p(2), t)
     ELSE IF kind = "xor" THEN compute_xor(q(1), q(2), p(1) # p(2), t)
     ELSE IF kind = "xor3" THEN
       IF is_constant(net, controls[1] \div 2)
       THEN compute_xor(q(2), q(3), (p(1) # p(2)) # p(3), t)
       ELSE compute_xor3(q(1), q(2), q(3), (p(1) # p(2)) # p(3), t)
     ELSE IF kind = "maj" THEN compute_maj(q(1), q(2), q(3), p(1), p(2), p(3), t)
     ELSE <<>>

\* the gates compute_node( node, t ) emits; a node of another kind has a node
\* function and takes the truth-table path
compute_node(net, n2q, node, t) ==
  LET controls == get_fanin_as_literals(net, node)
      q(i) == n2q[controls[i] \div 2]
      p(i) == controls[i] % 2 = 1
      kind == Gate(net, node).kind
  IN IF kind = "and" THEN compute_and(q(1), q(2), p(1), p(2), t)
     ELSE IF kind = "or" THEN compute_or(q(1), q(2), p(1), p(2), t)
     ELSE IF kind = "xor" THEN compute_xor(q(1), q(2), p(1) # p(2), t)
     ELSE IF kind = "xor3" THEN
       IF is_constant(net, controls[1] \div 2)
       THEN compute_xor(q(2), q(3), (p(1) # p(2)) # p(3), t)
       ELSE compute_xor3(q(1), q(2), q(3), (p(1) # p(2)) # p(3), t)
     ELSE IF kind = "maj" THEN
       IF is_constant(net, controls[1] \div 2)
       THEN IF p(1) THEN compute_or(q(2), q(3), p(2), p(3), t)
            ELSE compute_and(q(2), q(3), p(2), p(3), t)
       ELSE compute_maj(q(1), q(2), q(3), p(1), p(2), p(3), t)
     ELSE IF node_function(net, node) = create_parity(Len(Fanin(net, node)))
     THEN compute_xor_block(get_fanin_as_qubits(net, n2q, node), t)
     ELSE compute_lut(node_function(net, node), get_fanin_as_qubits(net, n2q, node), t)

compute_node_inplace(net, n2q, node, t) ==
  LET controls == get_fanin_as_literals(net, node)
      q(i) == n2q[controls[i] \div 2]
      p(i) == controls[i] % 2 = 1
      kind == Gate(net, node).kind
  IN IF kind = "xor" THEN compute_xor_inplace(q(1), q(2), p(1) # p(2), t)
     ELSE IF kind = "xor3" THEN
       IF is_constant(net, controls[1] \div 2)
       THEN compute_xor_inplace(q(2), q(3), (p(1) # p(2)) # p(3), t)
       ELSE compute_xor3_inplace(q(1), q(2), q(3), (p(1) # p(2)) # p(3), t)
     ELSE [gates |-> compute_xor_block(get_fanin_as_qubits(net, n2q, node), t), errs |-> 0]

\* releases the qubit without running the expander on it
uncompute_node_skipped(net, n2q, node, t) == <<>>

\* the gates an uncompute step emits before it releases the qubit
uncompute_node(net, n2q, node, t) == compute_node(net, n2q, node, t)

\* ---- ancilla pool -------------------------------------------------------
\* adds the fresh qubit without counting it
request_ancilla_uncounted(free, nq, required) ==
  IF free = <<>>
  THEN [r |-> nq, free |-> free, num_qubits |-> nq + 1, required |-> required]
  ELSE [r |-> free[Len(free)], free |-> SubSeq(free, 1, Len(free) - 1),
        num_qubits |-> nq, required |-> required]

\* hands out the qubit released first
request_ancilla_fifo(free, nq, required) ==
  IF free = <<>>
  THEN [r |-> nq, free |-> free, num_qubits |-> nq + 1, required |-> required + 1]
  ELSE [r |-> free[1], free |-> SubSeq(free, 2, Len(free)),
        num_qubits |-> nq, required |-> required]

\* counts the request also when it is served from the pool
request_ancilla_always_counted(free, nq, required) ==
  IF free = <<>>
  THEN [r |-> nq, free |-> free, num_qubits |-> nq + 1, required |-> required + 1]
  ELSE [r |-> free[Len(free)], free |-> SubSeq(free, 1, Len(free) - 1),
        num_qubits |-> nq, required |-> required + 1]

request_ancilla(free, nq, required) ==
  IF free = <<>>
  THEN [r |-> nq, free |-> free, num_qubits |-> nq + 1, required |-> required + 1]
  ELSE [r |-> free[Len(free)], free |-> SubSeq(free, 1, Len(free) - 1),
        num_qubits |-> nq, required |-> required]

\* forgets the released qubit
release_ancilla_dropped(free, q) == free

release_ancilla(free, q) == Append(free, q)

\* qnet.add_qubit(): one more qubit, holding 0
add_qubit(qv, nq) == [q \in 0..nq |-> IF q < nq THEN qv[q] ELSE Zero]

\* ---- synthesis driver ---------------------------------------------------
\* with a single constant node, constant true is the complement of node 0;
\* with two, it is node 1
get_constant(net, val) ==
  IF net.num_constants = 1 THEN Signal(0, val) ELSE Signal(IF val THEN 1 ELSE 0, FALSE)

\* gives the qubits to the primary inputs in reverse order
prepare_inputs_reversed(net, n2q) ==
  [n2q |-> [n \in DOMAIN n2q |->
              IF is_pi(net, n) THEN net.num_pis - 1 - (n - net.num_constants) ELSE n2q[n]],
   qval |-> [q \in 0..(net.num_pis - 1) |->
               {a \in Assignments(net) : (net.num_pis - 1 - q + net.num_constants) \in a}],
   num_qubits |-> net.num_pis,
   gates |-> <<>>]

\* every primary input gets the next qubit, which carries the input's value
prepare_inputs(net, n2q) ==
  [n2q |-> [n \in DOMAIN n2q |-> IF is_pi(net, n) THEN n - net.num_constants ELSE n2q[n]],
   qval |-> [q \in 0..(net.num_pis - 1) |->
               {a \in Assignments(net) : (q + net.num_constants) \in a}],
   num_qubits |-> net.num_pis,
   gates |-> <<>>]

\* gives the constant a qubit also when nothing refers to it
prepare_constant_unconditional(net, d, val) ==
  LET f == get_constant(net, val)
      n == f.index
      v == constant_value(net, n) # f.complement
  IN [n2q |-> [d.n2q EXCEPT ![n] = d.num_qubits],
      qval |-> ApplyGates(Assignments(net), add_qubit(d.qval, d.num_qubits),
                         If(v, <<X(d.num_qubits)>>)),
      num_qubits |-> d.num_qubits + 1,
      gates |-> d.gates \o If(v, <<X(d.num_qubits)>>)]

prepare_constant(net, d, val) ==
  LET f == get_constant(net, val)
      n == f.index
      v == constant_value(net, n) # f.complement
  IN IF fanout_size(net, n) = 0 THEN d
     ELSE [n2q |-> [d.n2q EXCEPT ![n] = d.num_qubits],
           qval |-> ApplyGates(Assignments(net), add_qubit(d.qval, d.num_qubits),
                              If(v, <<X(d.num_qubits)>>)),
           num_qubits |-> d.num_qubits + 1,
           gates |-> d.gates \o If(v, <<X(d.num_qubits)>>)]

\* the networks with a single constant node, pis primary inputs and the given bounds
InitNetwork(pis, maxGates, maxPos, maxCompl) ==
  \E g \in 1..maxGates :
    \E gs \in GateSeqs(pis, g, maxCompl) :
      \E k \in 1..maxPos :
        \E po \in {s \in PoSeqs(0..(pis + g), k) : DistinctSeq(s)} :
          ntk = [num_constants |-> 1, num_pis |-> pis, gates |-> gs, pos |-> po]

\* the k-LUT networks: two constant nodes, pis primary inputs and the given bounds
InitLutNetwork(pis, maxGates, maxPos) ==
  \E g \in 1..maxGates :
    \E gs \in LutSeqs(pis + 1, g) :
      \E k \in 1..maxPos :
        \E po \in {s \in PoSeqs(0..(pis + 1 + g), k) : DistinctSeq(s)} :
          ntk = [num_constants |-> 2, num_pis |-> pis, gates |-> gs, pos |-> po]

InitCommon ==
  /\ order = <<>>
  /\ vi = 1
  /\ steps = <<>>
  /\ it = 1
  /\ value = [n \in Nodes(ntk) |-> 0]
  /\ target = -1
  /\ solver_pebbles = -1
  /\ limit_ = DefaultLimit
  /\ node_to_qubit = [n \in Nodes(ntk) |-> 0]
  /\ qnet = [num_qubits |-> 0, gates |-> <<>>]
  /\ qval = <<>>
  /\ free_ancillae = <<>>
  /\ st = [required_ancillae |-> 0]
  /\ si = 1
  /\ errs = 0

Init ==
  /\ InitNetwork(RunPis, MaxGates, MaxPos, MaxCompl)
  /\ InitCommon
  /\ pc = "prepare"
  /\ strategy \in {"bennett", "bennett_inplace"}
  /\ ps = [pebble_limit |-> 0]

\* the strategy constructors alone; they never read a complement bit
InitStrategy ==
  /\ InitNetwork(StrategyPis, StrategyGates, StrategyPos, 0)
  /\ InitCommon
  /\ pc = "construct"
  /\ strategy \in {"bennett", "bennett_inplace"}
  /\ ps = [pebble_limit |-> 0]

\* the preparation alone, on networks of both kinds
InitPrepare ==
  /\ \/ InitNetwork(PreparePis, PrepareGates, PreparePos, MaxCompl)
     \/ InitLutNetwork(PreparePis, PrepareGates, PreparePos)
  /\ InitCommon
  /\ pc = "prepare"
  /\ strategy = "bennett"
  /\ ps = [pebble_limit |-> 0]

\* the node expander alone: one gate of any kind and polarity over the constant
\* and the primary inputs, driving the output; no mapping strategy is run
InitExpander ==
  /\ \E g \in GateChoices(ExpanderPis + 1, 3) :
       ntk = [num_constants |-> 1, num_pis |-> ExpanderPis, gates |-> <<g>>,
              pos |-> <<ExpanderPis + 1>>]
  /\ InitCommon
  /\ pc = "prepare"
  /\ strategy = "none"
  /\ ps = [pebble_limit |-> 0]

\* the node expander alone on the networks in which constant true is a node of
\* its own: one truth-table node, or one XOR3 gate, over the constants and the
\* primary inputs
InitExpanderTwoConstants ==
  /\ \E g \in LutNodes(TwoConstantPis + 2, LutArity) \cup
               {x \in GateChoices(TwoConstantPis + 2, 3) : x.kind = "xor3"} :
       ntk = [num_constants |-> 2, num_pis |-> TwoConstantPis, gates |-> <<g>>,
              pos |-> <<TwoConstantPis + 2>>]
  /\ InitCommon
  /\ pc = "prepare"
  /\ strategy = "none"
  /\ ps = [pebble_limit |-> 0]

\* the full runs on networks without complemented fan-ins: neither the
\* strategies nor the driver's handling of qubits read a complement bit
InitPlainRun ==
  /\ InitNetwork(RunPis, MaxGates, MaxPos, 0)
  /\ InitCommon
  /\ pc = "prepare"
  /\ strategy \in {"bennett", "bennett_inplace"}
  /\ ps = [pebble_limit |-> 0]

\* the full runs under a mapping strategy of the caller's
InitStream ==
  /\ InitNetwork(StreamPis, MaxGates, MaxPos, 0)
  /\ InitCommon
  /\ pc = "prepare"
  /\ strategy = "custom"
  /\ ps = [pebble_limit |-> 0]

InitPebbling ==
  /\ InitNetwork(RunPis, MaxGates, MaxPos, 0)
  /\ InitCommon
  /\ pc = "prepare"
  /\ strategy = "pebbling"
  /\ ps \in [pebble_limit : 0..MaxPebbleLimit]

\* prepare_inputs(); prepare_constant(false); prepare_constant(true) if it is another node
PrepareRun ==
  /\ pc = "prepare"
  /\ LET d0 == prepare_inputs(ntk, node_to_qubit)
         d1 == prepare_constant(ntk, d0, FALSE)
         d2 == IF get_constant(ntk, FALSE).index # get_constant(ntk, TRUE).index
               THEN prepare_constant(ntk, d1, TRUE) ELSE d1
     IN /\ node_to_qubit' = d2.n2q
        /\ qval' = d2.qval
        /\ qnet' = [num_qubits |-> d2.num_qubits, gates |-> qnet.gates \o d2.gates]
  /\ pc' = "construct"
  /\ UNCHANGED <<ntk, strategy, ps, strategyVars, free_ancillae, st, si, errs>>

\* bennett_mapping_strategy's constructor up to the walk
BennettConstruct ==
  /\ pc = "construct"
  /\ strategy = "bennett"
  /\ order' = topo_view(ntk)
  /\ vi' = 1
  /\ steps' = <<>>
  /\ it' = 1
  /\ pc' = "visit"
  /\ UNCHANGED <<ntk, strategy, ps, value, target, solver_pebbles, limit_, driverVars>>

\* one node of view.foreach_node
BennettVisit ==
  /\ pc = "visit"
  /\ strategy = "bennett"
  /\ LET r == bennett_visit(ntk, steps, it, order[vi])
     IN steps' = r.steps /\ it' = r.it
  /\ vi' = vi + 1
  /\ pc' = IF vi = Len(order) THEN "steps" ELSE "visit"
  /\ UNCHANGED <<ntk, strategy, ps, order, value, target, solver_pebbles, limit_, driverVars>>

\* bennett_inplace_mapping_strategy's constructor up to the walk
InplaceConstruct ==
  /\ pc = "construct"
  /\ strategy = "bennett_inplace"
  /\ value' = [n \in Nodes(ntk) |-> fanout_size(ntk, n)]
  /\ order' = foreach_node(ntk)
  /\ vi' = 1
  /\ steps' = <<>>
  /\ it' = 1
  /\ pc' = "visit"
  /\ UNCHANGED <<ntk, strategy, ps, target, solver_pebbles, limit_, driverVars>>

\* one node of ntk.foreach_node
InplaceVisit ==
  /\ pc = "visit"
  /\ strategy = "bennett_inplace"
  /\ LET r == inplace_visit(ntk, steps, it, value, order[vi])
     IN steps' = r.steps /\ it' = r.it /\ value' = r.value /\ target' = r.target
  /\ vi' = vi + 1
  /\ pc' = IF vi = Len(order) THEN "steps" ELSE "visit"
  /\ UNCHANGED <<ntk, strategy, ps, order, solver_pebbles, limit_, driverVars>>

\* pebbling_mapping_strategy's constructor, called as MappingStrategy strategy( ntk )
PebblingConstruct ==
  /\ pc = "construct"
  /\ strategy = "pebbling"
  /\ solver_pebbles' = DefaultPebbles
  /\ steps' = pebble_solver_steps(ntk, DefaultPebbles)
  /\ pc' = "set_limit"
  /\ UNCHANGED <<ntk, strategy, ps, order, vi, it, value, target, limit_, driverVars>>

\* strategy.set_pebble_limit( ps.pebble_limit )
\* the gates a step list leaves computed
StreamLive(s) ==
  {n \in Nodes(ntk) :
     \E i \in 1..Len(s) :
       /\ s[i].node = n
       /\ s[i].action = "compute"
       /\ \A j \in (i + 1)..Len(s) : s[j].node # n}

\* MappingStrategy strategy( ntk ) for a strategy of the caller's: it yields any
\* valid stream of Compute and Uncompute steps, one in which a gate is
\* computed only when it is not live, uncomputed only when it is, and both
\* only while the gates it reads are live
CustomEmit ==
  /\ pc = "construct"
  /\ strategy = "custom"
  /\ Len(steps) < MaxStream
  /\ \E n \in {m \in Nodes(ntk) : is_gate(ntk, m)} :
       /\ {m \in FaninNodes(ntk, n) : is_gate(ntk, m)} \subseteq StreamLive(steps)
       /\ steps' = Append(steps, Step(n, IF n \in StreamLive(steps) THEN "uncompute"
                                         ELSE "compute"))
  /\ UNCHANGED <<ntk, strategy, ps, pc, order, vi, it, value, target, solver_pebbles, limit_,
                 driverVars>>

\* the stream is complete when it leaves exactly the output drivers computed
CustomDone ==
  /\ pc = "construct"
  /\ strategy = "custom"
  /\ StreamLive(steps) = {m \in Drivers(ntk) : is_gate(ntk, m)}
  /\ pc' = "steps"
  /\ UNCHANGED <<ntk, strategy, ps, strategyVars, driverVars>>

SetPebbleLimit ==
  /\ pc = "set_limit"
  /\ limit_' = ps.pebble_limit
  /\ pc' = "steps"
  /\ UNCHANGED <<ntk, strategy, ps, order, vi, steps, it, value, target, solver_pebbles,
                 driverVars>>

DoCompute ==
  /\ pc = "steps"
  /\ si <= Len(steps)
  /\ steps[si].action = "compute"
  /\ LET node == steps[si].node
         a == request_ancilla(free_ancillae, qnet.num_qubits, st.required_ancillae)
         n2q == [node_to_qubit EXCEPT ![node] = a.r]
         gs == compute_node(ntk, n2q, node, a.r)
         qv == IF a.num_qubits > qnet.num_qubits THEN add_qubit(qval, qnet.num_qubits)
               ELSE qval
     IN /\ node_to_qubit' = n2q
        /\ free_ancillae' = a.free
        /\ st' = [st EXCEPT !.required_ancillae = a.required]
        /\ qnet' = [num_qubits |-> a.num_qubits, gates |-> qnet.gates \o gs]
        /\ qval' = ApplyGates(Assignments(ntk), qv, gs)
  /\ si' = si + 1
  /\ UNCHANGED <<ntk, strategy, ps, pc, strategyVars, errs>>

DoUncompute ==
  /\ pc = "steps"
  /\ si <= Len(steps)
  /\ steps[si].action = "uncompute"
  /\ LET node == steps[si].node
         t == node_to_qubit[node]
         gs == uncompute_node(ntk, node_to_qubit, node, t)
     IN /\ qnet' = [qnet EXCEPT !.gates = @ \o gs]
        /\ qval' = ApplyGates(Assignments(ntk), qval, gs)
        /\ free_ancillae' = release_ancilla(free_ancillae, t)
  /\ si' = si + 1
  /\ UNCHANGED <<ntk, strategy, ps, pc, strategyVars, node_to_qubit, st, errs>>

\* resets the entry of the target node
take_over_qubit_moved(n2q, node, target_index) ==
  [n2q EXCEPT ![node] = n2q[target_index], ![target_index] = 0]

\* node_to_qubit[node] = node_to_qubit[action.target_index]
take_over_qubit(n2q, node, target_index) == [n2q EXCEPT ![node] = n2q[target_index]]

DoComputeInplace ==
  /\ pc = "steps"
  /\ si <= Len(steps)
  /\ steps[si].action = "compute_inplace"
  /\ LET node == steps[si].node
         n2q == take_over_qubit(node_to_qubit, node, steps[si].target_index)
         t == n2q[node]
         r == compute_node_inplace(ntk, n2q, node, t)
     IN /\ node_to_qubit' = n2q
        /\ qnet' = [qnet EXCEPT !.gates = @ \o r.gates]
        /\ qval' = ApplyGates(Assignments(ntk), qval, r.gates)
        /\ errs' = errs + r.errs
  /\ si' = si + 1
  /\ UNCHANGED <<ntk, strategy, ps, pc, strategyVars, free_ancillae, st>>

DoUncomputeInplace ==
  /\ pc = "steps"
  /\ si <= Len(steps)
  /\ steps[si].action = "uncompute_inplace"
  /\ LET node == steps[si].node
         t == node_to_qubit[node]
         r == compute_node_inplace(ntk, node_to_qubit, node, t)
     IN /\ qnet' = [qnet EXCEPT !.gates = @ \o r.gates]
        /\ qval' = ApplyGates(Assignments(ntk), qval, r.gates)
        /\ errs' = errs + r.errs
  /\ si' = si + 1
  /\ UNCHANGED <<ntk, strategy, ps, pc, strategyVars, node_to_qubit, free_ancillae, st>>

\* compute_node( node, t ) on a target qubit that holds a value of its own: the
\* qubit of a primary input the node does not read, so that every combination
\* of fan-in and target values occurs among the input assignments
ExpandNode ==
  /\ pc = "construct"
  /\ strategy = "none"
  /\ \E tn \in Pis(ntk) \ FaninNodes(ntk, ntk.pos[1]) :
       LET node == ntk.pos[1]
           t == node_to_qubit[tn]
           gs == compute_node(ntk, node_to_qubit, node, t)
       IN /\ node_to_qubit' = [node_to_qubit EXCEPT ![node] = t]
          /\ qnet' = [qnet EXCEPT !.gates = @ \o gs]
          /\ qval' = ApplyGates(Assignments(ntk), qval, gs)
  /\ pc' = "expanded"
  /\ UNCHANGED <<ntk, strategy, ps, strategyVars, free_ancillae, st, si, errs>>

\* compute_node( node, t ) once more on the same node and target, as the
\* uncompute handler calls it on node_to_qubit[node]
ExpandAgain ==
  /\ pc = "expanded"
  /\ LET node == ntk.pos[1]
         t == node_to_qubit[node]
         gs == compute_node(ntk, node_to_qubit, node, t)
     IN /\ qnet' = [qnet EXCEPT !.gates = @ \o gs]
        /\ qval' = ApplyGates(Assignments(ntk), qval, gs)
  /\ pc' = "expanded_twice"
  /\ UNCHANGED <<ntk, strategy, ps, strategyVars, node_to_qubit, free_ancillae, st, si, errs>>

\* the compute_inplace handler: the target is the qubit of one of the node's
\* fan-ins, whichever the strategy names; the strategies of this library name
\* one for XOR and XOR3 nodes only, a strategy of the caller's may for a
\* truth-table node
ExpandNodeInplace ==
  /\ pc = "construct"
  /\ strategy = "none"
  /\ Gate(ntk, ntk.pos[1]).kind \in {"xor", "xor3", "lut"}
  /\ \E tn \in FaninNodes(ntk, ntk.pos[1]) :
       LET node == ntk.pos[1]
           t == node_to_qubit[tn]
           n2q == [node_to_qubit EXCEPT ![node] = t]
           r == compute_node_inplace(ntk, n2q, node, t)
       IN /\ node_to_qubit' = n2q
          /\ qnet' = [qnet EXCEPT !.gates = @ \o r.gates]
          /\ qval' = ApplyGates(Assignments(ntk), qval, r.gates)
          /\ errs' = errs + r.errs
  /\ pc' = "expanded_inplace"
  /\ UNCHANGED <<ntk, strategy, ps, strategyVars, free_ancillae, st, si>>

\* foreach_step has replayed every step: run() returns
Finish ==
  /\ pc = "steps"
  /\ si > Len(steps)
  /\ pc' = "done"
  /\ UNCHANGED <<ntk, strategy, ps, strategyVars, driverVars>>

Next ==
  \/ PrepareRun
  \/ BennettConstruct
  \/ BennettVisit
  \/ InplaceConstruct
  \/ InplaceVisit
  \/ DoCompute
  \/ DoUncompute
  \/ DoComputeInplace
  \/ DoUncomputeInplace
  \/ Finish

Spec == Init /\ [][Next]_vars

NextStrategy ==
  \/ BennettConstruct
  \/ BennettVisit
  \/ InplaceConstruct
  \/ InplaceVisit

SpecStrategy == InitStrategy /\ [][NextStrategy]_vars

\* the full runs on networks without complemented fan-ins; run() is
\* straight-line code over finite loops, so it goes on as long as a step is left
SpecFair == InitPlainRun /\ [][Next]_vars /\ WF_vars(Next)

NextPebbling ==
  \/ PrepareRun
  \/ PebblingConstruct
  \/ SetPebbleLimit
  \/ DoCompute
  \/ DoUncompute
  \/ Finish

SpecPebbling == InitPebbling /\ [][NextPebbling]_vars

NextStream ==
  \/ PrepareRun
  \/ CustomEmit
  \/ CustomDone
  \/ DoCompute
  \/ DoUncompute
  \/ Finish

SpecStream == InitStream /\ [][NextStream]_vars

NextPrepare == PrepareRun

NextExpander ==
  \/ PrepareRun
  \/ ExpandNode
  \/ ExpandAgain
  \/ ExpandNodeInplace

SpecExpander == InitExpander /\ [][NextExpander]_vars

SpecPrepare == InitPrepare /\ [][NextPrepare]_vars

NextExpanderTwoConstants ==
  \/ PrepareRun
  \/ ExpandNode
  \/ ExpandNodeInplace

SpecExpanderTwoConstants == InitExpanderTwoConstants /\ [][NextExpanderTwoConstants]_vars

\* ---- claims -------------------------------------------------------------
DriverHolds(i) == qval[node_to_qubit[ntk.pos[i]]] = NodeFunction(ntk, ntk.pos[i])

\* C1: under the Bennett strategy, when the run finishes the qubit of every
\* primary-output driver holds that node's Boolean function of the inputs
C1_BennettOutputs ==
  (pc = "done" /\ strategy = "bennett") => \A i \in 1..Len(ntk.pos) : DriverHolds(i)

\* a finished Bennett run whose driver is a gate over another gate and computes
\* a function that is not constant
C1_Witness ==
  /\ pc = "done"
  /\ strategy = "bennett"
  /\ \E i \in 1..Len(ntk.pos) :
       /\ is_gate(ntk, ntk.pos[i])
       /\ \E j \in 1..Len(Fanin(ntk, ntk.pos[i])) : is_gate(ntk, Fanin(ntk, ntk.pos[i])[j].index)
       /\ NodeFunction(ntk, ntk.pos[i]) \notin {Zero, Assignments(ntk)}
       /\ DriverHolds(i)

\* C2: under the Bennett-in-place strategy, when the run finishes the qubit of
\* every primary-output driver holds that node's Boolean function of the inputs
C2_InplaceOutputs ==
  (pc = "done" /\ strategy = "bennett_inplace") => \A i \in 1..Len(ntk.pos) : DriverHolds(i)

\* C3: every qubit in the free pool holds 0, in Bennett and Bennett-in-place
\* runs: an Uncompute step releases its qubit only after restoring it to 0
C3_PoolHoldsZero ==
  \A i \in 1..Len(free_ancillae) : qval[free_ancillae[i]] = Zero

\* an Uncompute step has released the qubit of a node whose function is not
\* constant false
C3_Witness ==
  /\ free_ancillae # <<>>
  /\ \E i \in 1..(si - 1) :
       /\ steps[i].action = "uncompute"
       /\ NodeFunction(ntk, steps[i].node) # Zero
       /\ node_to_qubit[steps[i].node] = free_ancillae[Len(free_ancillae)]

\* ---- the step list of a strategy ------------------------------------------
Gates(net) == {n \in Nodes(net) : is_gate(net, n)}

\* positions of the steps of node n with an action in acts
Positions(n, acts) == {i \in 1..Len(steps) : steps[i].node = n /\ steps[i].action \in acts}

ListBuilt == pc = "steps"

\* the gates of the Bennett walk, in the order of the walk
WalkGates == SelectSeq(order, LAMBDA n : is_gate(ntk, n))

\* C4 as stated: in the Bennett step list, the step right after Compute(n) of a
\* gate n that is no primary-output driver is Uncompute(n)
C4_UncomputeAdjacent ==
  (ListBuilt /\ strategy = "bennett") =>
    \A i \in 1..Len(steps) :
      (steps[i].action = "compute" /\ steps[i].node \notin Drivers(ntk)) =>
        (i < Len(steps) /\ steps[i + 1] = Step(steps[i].node, "uncompute"))

\* C4 amended: in the Bennett step list, the step right after Compute(n) of a
\* gate n that is no primary-output driver is the Compute step of the next gate
\* of the walk, and Uncompute(n) comes later, after every Compute step
C4_UncomputeAfterAllComputes ==
  (ListBuilt /\ strategy = "bennett") =>
    \A k \in 1..Len(WalkGates) :
      WalkGates[k] \notin Drivers(ntk) =>
        /\ steps[k] = Step(WalkGates[k], "compute")
        /\ k < Len(WalkGates)
        /\ steps[k + 1] = Step(WalkGates[k + 1], "compute")
        /\ \E j \in (Len(WalkGates) + 1)..Len(steps) : steps[j] = Step(WalkGates[k], "uncompute")

\* a Bennett list in which other steps stand between Compute(n) and Uncompute(n)
C4_Witness ==
  /\ ListBuilt
  /\ strategy = "bennett"
  /\ \E i \in 1..Len(steps) : \E j \in 1..Len(steps) :
       /\ j > i + 1
       /\ steps[i] = Step(steps[i].node, "compute")
       /\ steps[j] = Step(steps[i].node, "uncompute")

\* C5: in the Bennett step list every Compute step precedes every Uncompute
\* step, a gate is computed after the gates it reads, and the non-driver gates
\* are uncomputed in the reverse of the order they were computed in
C5_ComputeAllThenReverse ==
  (ListBuilt /\ strategy = "bennett") =>
    /\ \A i \in 1..Len(steps) : \A j \in 1..Len(steps) :
         (steps[i].action = "compute" /\ steps[j].action = "uncompute") => i < j
    /\ \A i \in 1..Len(steps) :
         steps[i].action = "compute" =>
           \A m \in FaninNodes(ntk, steps[i].node) \cap Gates(ntk) :
             \E k \in 1..(i - 1) : steps[k] = Step(m, "compute")
    /\ \A m \in Gates(ntk) : \A n \in Gates(ntk) :
         \A cm \in Positions(m, {"compute"}) : \A cn \in Positions(n, {"compute"}) :
           \A um \in Positions(m, {"uncompute"}) : \A un \in Positions(n, {"uncompute"}) :
             cm < cn => un < um

\* a Bennett list with two uncomputed gates and a third, computed after a gate it reads
C5_Witness ==
  /\ ListBuilt
  /\ strategy = "bennett"
  /\ Cardinality({i \in 1..Len(steps) : steps[i].action = "uncompute"}) >= 2
  /\ \E i \in 1..Len(steps) :
       /\ steps[i].action = "compute"
       /\ FaninNodes(ntk, steps[i].node) \cap Gates(ntk) # {}

ComputeActions == {"compute", "compute_inplace"}

UncomputeActions == {"uncompute", "uncompute_inplace"}

\* C6: in a Bennett or Bennett-in-place step list every node has as many
\* Compute/ComputeInplace steps as Uncompute/UncomputeInplace steps, except that
\* a gate driving a primary output has one Compute and no Uncompute; the
\* constant and the primary inputs have no step
C6_ComputeUncomputeBalance ==
  ListBuilt =>
    \A n \in Nodes(ntk) :
      LET c == Cardinality(Positions(n, ComputeActions))
          u == Cardinality(Positions(n, UncomputeActions))
      IN IF ~is_gate(ntk, n) THEN c = 0 /\ u = 0
         ELSE IF n \in Drivers(ntk) THEN c = 1 /\ u = 0
         ELSE c = u

\* an in-place list with a driver gate, a gate computed in-place and a gate
\* computed and uncomputed out-of-place
C6_Witness ==
  /\ ListBuilt
  /\ strategy = "bennett_inplace"
  /\ Drivers(ntk) \cap Gates(ntk) # {}
  /\ \E i \in 1..Len(steps) : steps[i].action = "uncompute_inplace"
  /\ \E i \in 1..Len(steps) : steps[i].action = "uncompute"

\* the fan-in edges of the gates up to n that refer to node m
EdgesUpTo(net, m, n) ==
  {e \in Gates(net) \X (1..3) :
     e[1] <= n /\ e[2] <= Len(Fanin(net, e[1])) /\ Fanin(net, e[1])[e[2]].index = m}

\* the fan-ins of gate n that no later gate and no primary output refers to
LastUses(net, n) ==
  {m \in FaninNodes(net, n) : fanout_size(net, m) = Cardinality(EdgesUpTo(net, m, n))}

XorClass(net, n) == Gate(net, n).kind \in {"xor", "xor3"}

\* C7: in the Bennett-in-place list a gate n has a ComputeInplace step only if
\* n is an XOR or XOR3 gate, is no primary-output driver and the target is a
\* fan-in of n whose counter reached zero at n; every other gate has an
\* out-of-place Compute step instead
C7_InplaceOnlyWhenJustified ==
  (ListBuilt /\ strategy = "bennett_inplace") =>
    \A n \in Gates(ntk) :
      IF LastUses(ntk, n) # {} /\ n \notin Drivers(ntk) /\ XorClass(ntk, n)
      THEN /\ Positions(n, {"compute"}) = {}
           /\ \E i \in 1..Len(steps) :
                /\ Positions(n, {"compute_inplace"}) = {i}
                /\ steps[i].target_index \in LastUses(ntk, n)
      ELSE /\ Positions(n, {"compute_inplace", "uncompute_inplace"}) = {}
           /\ Cardinality(Positions(n, {"compute"})) = 1

\* an in-place list with a gate computed in-place and a gate that is not of the
\* XOR class and is computed out-of-place although a fan-in is used last by it
C7_Witness ==
  /\ ListBuilt
  /\ strategy = "bennett_inplace"
  /\ \E i \in 1..Len(steps) : steps[i].action = "compute_inplace"
  /\ \E n \in Gates(ntk) :
       /\ LastUses(ntk, n) # {}
       /\ n \notin Drivers(ntk)
       /\ ~XorClass(ntk, n)
       /\ Positions(n, {"compute"}) # {}

\* C8 as stated: in the Bennett-in-place list every ComputeInplace step is
\* followed at once by the UncomputeInplace step of the same node and target
C8_InplacePairAdjacent ==
  (ListBuilt /\ strategy = "bennett_inplace") =>
    \A i \in 1..Len(steps) :
      steps[i].action = "compute_inplace" =>
        /\ i < Len(steps)
        /\ steps[i + 1] =
             InplaceStep(steps[i].node, "uncompute_inplace", steps[i].target_index)

\* C8 amended: every ComputeInplace step of a node n is followed, later in the
\* list, by exactly one UncomputeInplace step of n with the same target, and the
\* steps between the two are exactly the steps of the gates visited after n
C8_InplacePairEnclosesLaterGates ==
  (ListBuilt /\ strategy = "bennett_inplace") =>
    \A i \in 1..Len(steps) :
      steps[i].action = "compute_inplace" =>
        \E j \in (i + 1)..Len(steps) :
          /\ Positions(steps[i].node, {"uncompute_inplace"}) = {j}
          /\ steps[j].target_index = steps[i].target_index
          /\ \A k \in 1..Len(steps) : (i < k /\ k < j) <=> steps[k].node > steps[i].node

\* an in-place list in which other steps stand between a ComputeInplace step
\* and its UncomputeInplace step
C8_Witness ==
  /\ ListBuilt
  /\ strategy = "bennett_inplace"
  /\ \E i \in 1..Len(steps) : \E j \in 1..Len(steps) :
       /\ j > i + 1
       /\ steps[i].action = "compute_inplace"
       /\ steps[j] = InplaceStep(steps[i].node, "uncompute_inplace", steps[i].target_index)

\* the gate the in-place walk visited last, if it was a gate
VisitedGate == vi > 1 /\ is_gate(ntk, order[vi - 1])

\* the fan-ins of the gate visited last whose counter is zero, by fan-in position
ZeroFanins ==
  {i \in 1..Len(Fanin(ntk, order[vi - 1])) : value[Fanin(ntk, order[vi - 1])[i].index] = 0}

\* C9: in the Bennett-in-place walk every counter has been decremented once per
\* fan-in edge of the gates visited so far, and the target found at a gate is
\* its first fan-in, in fan-in order, whose counter reached zero there
C9_CountersAndFirstTarget ==
  (strategy = "bennett_inplace" /\ pc \in {"visit", "steps"} /\ VisitedGate) =>
    /\ \A m \in Nodes(ntk) :
         value[m] = fanout_size(ntk, m) - Cardinality(EdgesUpTo(ntk, m, order[vi - 1]))
    /\ IF ZeroFanins = {} THEN target = -1
       ELSE \E i \in ZeroFanins :
              /\ \A k \in ZeroFanins : i <= k
              /\ target = Fanin(ntk, order[vi - 1])[i].index

\* a gate at which two fan-ins reached zero
C9_Witness ==
  /\ strategy = "bennett_inplace"
  /\ pc \in {"visit", "steps"}
  /\ VisitedGate
  /\ Cardinality(ZeroFanins) >= 2
  /\ target # -1

\* the gates that hold a qubit: computed and not yet uncomputed
LiveGates ==
  {n \in Gates(ntk) :
     \E i \in 1..(si - 1) :
       /\ steps[i] = Step(n, "compute")
       /\ \A j \in (i + 1)..(si - 1) : steps[j] # Step(n, "uncompute")}

\* C10 as stated: with the pebbling strategy the pebble solver is invoked with
\* the configured limit ps.pebble_limit, and the steps the driver replays keep
\* no more gates live at once than that limit (0 = no limit)
C10_SolverUsesConfiguredLimit ==
  (strategy = "pebbling" /\ pc \in {"set_limit", "steps", "done"}) =>
    /\ solver_pebbles = ps.pebble_limit
    /\ ps.pebble_limit > 0 => Cardinality(LiveGates) <= ps.pebble_limit

\* the nodes in the fan-in cones of the nodes S
RECURSIVE Cone(_, _)
Cone(net, S) ==
  LET T == S \cup UNION {FaninNodes(net, n) : n \in S}
  IN IF T = S THEN S ELSE Cone(net, T)

\* the gates in the cone of some primary output
ReachableGates(net) == Cone(net, Drivers(net)) \cap Gates(net)

\* C11 as stated: after a complete Bennett run, required_ancillae equals the
\* number of gates (non-constant, non-input nodes) of the network
C11_AncillaPerGate ==
  (pc = "done" /\ strategy = "bennett") =>
    st.required_ancillae = Cardinality(Gates(ntk))

\* C11 amended: after a complete Bennett run, required_ancillae equals the
\* number of gates in the cones of the primary outputs, each of which got a
\* fresh qubit; a gate outside every cone is not computed and gets none
C11_AncillaPerReachableGate ==
  (pc = "done" /\ strategy = "bennett") =>
    /\ st.required_ancillae = Cardinality(ReachableGates(ntk))
    /\ \A n \in ReachableGates(ntk) : \A m \in ReachableGates(ntk) :
         n # m => node_to_qubit[n] # node_to_qubit[m]

\* a finished Bennett run on a network with a gate no primary output depends on
\* and a gate that was computed
C11_Witness ==
  /\ pc = "done"
  /\ strategy = "bennett"
  /\ ReachableGates(ntk) # Gates(ntk)
  /\ st.required_ancillae >= 1

\* every gate is a binary XOR with exactly one fan-in used last by it
AllXorOneLastUse ==
  \A n \in Gates(ntk) : Gate(ntk, n).kind = "xor" /\ Cardinality(LastUses(ntk, n)) = 1

\* C12 as stated: after a complete Bennett-in-place run on a network in which
\* every gate is a binary XOR with exactly one fan-in whose counter reaches
\* zero at the gate, required_ancillae is 0
C12_AllXorNoAncilla ==
  (pc = "done" /\ strategy = "bennett_inplace" /\ AllXorOneLastUse) =>
    st.required_ancillae = 0

\* C12 amended: on such a network required_ancillae equals the number of gates
\* that drive a primary output (they are computed out-of-place on a fresh
\* qubit); every other gate is computed in-place, so it is 0 when no gate drives
\* a primary output
C12_AncillaPerDriverGate ==
  (pc = "done" /\ strategy = "bennett_inplace" /\ AllXorOneLastUse) =>
    /\ st.required_ancillae = Cardinality(Drivers(ntk) \cap Gates(ntk))
    /\ \A n \in Gates(ntk) \ Drivers(ntk) : Positions(n, {"compute_inplace"}) # {}

\* a finished in-place run on such a network with a driver gate and a gate
\* that was computed in-place
C12_Witness ==
  /\ pc = "done"
  /\ strategy = "bennett_inplace"
  /\ AllXorOneLastUse
  /\ Drivers(ntk) \cap Gates(ntk) # {}
  /\ \E i \in 1..Len(steps) : steps[i].action = "uncompute_inplace"

\* ---- qubits and the pool -------------------------------------------------
\* the constant nodes that get a qubit
MaterialisedConstants(net) ==
  {n \in Nodes(net) : is_constant(net, n) /\ fanout_size(net, n) > 0}

Prepared == pc # "prepare"

\* the steps the driver has executed so far
Executed == 1..(si - 1)

\* the nodes whose node_to_qubit entry has been written
AssignedNodes ==
  IF ~Prepared THEN {}
  ELSE Pis(ntk) \cup MaterialisedConstants(ntk) \cup
       {steps[i].node : i \in {j \in Executed : steps[j].action \in ComputeActions}}

\* the primary inputs, the constants with a qubit and the gates computed (in
\* either way) and not uncomputed since
LiveNodes ==
  IF ~Prepared THEN {}
  ELSE Pis(ntk) \cup MaterialisedConstants(ntk) \cup
       {n \in Gates(ntk) :
          \E i \in Executed :
            /\ steps[i].node = n
            /\ steps[i].action \in ComputeActions
            /\ \A j \in Executed :
                 j > i => ~(steps[j].node = n /\ steps[j].action \in UncomputeActions)}

QubitsOf(S) == {node_to_qubit[n] : n \in S}

AllQubits == 0..(qnet.num_qubits - 1)

C14_InputsNeverReleased ==
  Prepared => QubitsOf(Pis(ntk) \cup MaterialisedConstants(ntk)) \cap Range(free_ancillae) = {}

\* a finished in-place run in which a gate was computed in-place onto the qubit
\* of a primary input and uncomputed again, and some qubit was released
C14_Witness ==
  /\ pc = "done"
  /\ strategy = "bennett_inplace"
  /\ free_ancillae # <<>>
  /\ \E i \in Executed :
       steps[i].action = "uncompute_inplace" /\ is_pi(ntk, steps[i].target_index)

\* C15: after the preparation, constant false has a qubit iff its node has
\* fan-out, and that qubit holds 0 with no X emitted on it; constant true has a
\* qubit of its own, with exactly one X on it, iff it is another node than
\* constant false and has fan-out; a constant without fan-out adds no qubit and
\* no gate
C15_ConstantPreparation ==
  pc = "construct" =>
    LET hasF == fanout_size(ntk, 0) > 0
        hasT == ntk.num_constants = 2 /\ fanout_size(ntk, 1) > 0
        qF == ntk.num_pis
        qT == ntk.num_pis + (IF hasF THEN 1 ELSE 0)
    IN /\ qnet.num_qubits = ntk.num_pis + (IF hasF THEN 1 ELSE 0) + (IF hasT THEN 1 ELSE 0)
       /\ qnet.gates = (IF hasT THEN <<X(qT)>> ELSE <<>>)
       /\ hasF => node_to_qubit[0] = qF /\ qval[qF] = Zero
       /\ hasT => node_to_qubit[1] = qT /\ qval[qT] = Assignments(ntk)

\* a prepared network with two constant nodes, both with fan-out
C15_Witness ==
  /\ pc = "construct"
  /\ ntk.num_constants = 2
  /\ fanout_size(ntk, 0) > 0
  /\ fanout_size(ntk, 1) > 0
  /\ qnet.gates = <<X(ntk.num_pis + 1)>>

\* the gates an executed Compute step has obtained a qubit for
RequestedFor == {steps[i].node : i \in {j \in Executed : steps[j].action = "compute"}}

\* C16: from the preparation on, num_qubits = number of primary inputs + number
\* of constants with a qubit + required_ancillae, and the qubits beyond those of
\* the inputs and constants are exactly the required_ancillae qubits obtained
\* by Compute steps
C16_QubitCount ==
  Prepared =>
    /\ qnet.num_qubits =
         ntk.num_pis + Cardinality(MaterialisedConstants(ntk)) + st.required_ancillae
    /\ AllQubits \ QubitsOf(Pis(ntk) \cup MaterialisedConstants(ntk)) = QubitsOf(RequestedFor)
    /\ Cardinality(QubitsOf(RequestedFor)) = st.required_ancillae
    /\ Cardinality(QubitsOf(Pis(ntk) \cup MaterialisedConstants(ntk))) =
         ntk.num_pis + Cardinality(MaterialisedConstants(ntk))

\* a finished run with a constant qubit and two ancillae
C16_Witness ==
  /\ pc = "done"
  /\ MaterialisedConstants(ntk) # {}
  /\ st.required_ancillae = 2
  /\ qnet.num_qubits = ntk.num_pis + 3

\* ---- the node expander alone ---------------------------------------------
ExpandedNode == ntk.pos[1]

Expanded(kind) == pc = "expanded" /\ Gate(ntk, ExpandedNode).kind = kind

\* qubit and polarity of the i-th fan-in of the expanded node, and its target
Ctl(i) == node_to_qubit[Fanin(ntk, ExpandedNode)[i].index]

Plr(i) == Fanin(ntk, ExpandedNode)[i].complement

Tgt == node_to_qubit[ExpandedNode]

\* the value a qubit held when the expander was called: an input's qubit holds
\* the input, the qubit of a constant node holds the node's value
Before(q) ==
  IF q < ntk.num_pis THEN {a \in Assignments(ntk) : (q + ntk.num_constants) \in a}
  ELSE IF \E n \in MaterialisedConstants(ntk) : constant_value(ntk, n) /\ node_to_qubit[n] = q
  THEN Assignments(ntk)
  ELSE Zero

\* the gates of the preparation, and the gates emitted after it
PreparedGates ==
  [i \in 1..Cardinality({n \in MaterialisedConstants(ntk) : constant_value(ntk, n)}) |->
     X(node_to_qubit[1])]

Emitted == SubSeq(qnet.gates, Len(PreparedGates) + 1, Len(qnet.gates))

\* the value the i-th fan-in had, its polarity applied
In(i) == Pol(Assignments(ntk), Before(Ctl(i)), Plr(i))

Opt(b, g) == IF b THEN <<g>> ELSE <<>>

\* C17: for an AND gate the expander emits X(c1) if p1, X(c2) if p2,
\* MCX({c1,c2};{t}), X(c2) if p2, X(c1) if p1 and nothing else (the single MCX
\* when no fan-in is complemented), and the target ends as
\* t XOR ((c1 XOR p1) AND (c2 XOR p2))
C17_AndGadget ==
  Expanded("and") =>
    /\ qnet.gates = Opt(Plr(1), X(Ctl(1))) \o Opt(Plr(2), X(Ctl(2))) \o
                    <<MCX(<<Ctl(1), Ctl(2)>>, Tgt)>> \o
                    Opt(Plr(2), X(Ctl(2))) \o Opt(Plr(1), X(Ctl(1)))
    /\ (~Plr(1) /\ ~Plr(2)) => qnet.gates = <<MCX(<<Ctl(1), Ctl(2)>>, Tgt)>>
    /\ qval[Tgt] = Xor(Before(Tgt), And(In(1), In(2)))

\* an AND of two complemented inputs has been expanded into five gates
C17_Witness ==
  /\ Expanded("and")
  /\ Plr(1) /\ Plr(2)
  /\ is_pi(ntk, Fanin(ntk, ExpandedNode)[1].index)
  /\ Len(qnet.gates) = 5

\* C18: for an OR gate the expander flips each fan-in qubit whose polarity bit
\* is not set, emits MCX({c1,c2};{t}) and X(t), and undoes the flips; OR(not a, b)
\* on qubits 0, 1 with target 2 gives X(1), MCX({0,1};{2}), X(2), X(1); the
\* target ends as t XOR ((c1 XOR p1) OR (c2 XOR p2))
C18_OrGadget ==
  Expanded("or") =>
    /\ qnet.gates = Opt(~Plr(1), X(Ctl(1))) \o Opt(~Plr(2), X(Ctl(2))) \o
                    <<MCX(<<Ctl(1), Ctl(2)>>, Tgt), X(Tgt)>> \o
                    Opt(~Plr(2), X(Ctl(2))) \o Opt(~Plr(1), X(Ctl(1)))
    /\ (Ctl(1) = 0 /\ Ctl(2) = 1 /\ Tgt = 2 /\ Plr(1) /\ ~Plr(2)) =>
         qnet.gates = <<X(1), MCX(<<0, 1>>, 2), X(2), X(1)>>
    /\ qval[Tgt] = Xor(Before(Tgt), Or(In(1), In(2)))

\* OR(not a, b) has been expanded on qubits 0, 1 with target 2
C18_Witness ==
  /\ Expanded("or")
  /\ Ctl(1) = 0 /\ Ctl(2) = 1 /\ Tgt = 2
  /\ Plr(1) /\ ~Plr(2)
  /\ Len(qnet.gates) = 4

FirstFaninConstant == is_constant(ntk, Fanin(ntk, ExpandedNode)[1].index)

\* C19: for a MAJ gate whose first fan-in is no constant the expander emits X
\* on c1 if p1, on c2 if not p2, on c3 if p3, then CX(c1,c2), CX(c3,c1),
\* CX(c3,t), MCX({c1,c2};{t}), CX(c3,c1), CX(c1,c2), then the same X gates in
\* reverse, and the target ends as t XOR MAJ(c1 XOR p1, c2 XOR p2, c3 XOR p3)
\* for all values of the four qubits and all polarities
C19_MajGadget ==
  (Expanded("maj") /\ ~FirstFaninConstant) =>
    /\ qnet.gates =
         Opt(Plr(1), X(Ctl(1))) \o Opt(~Plr(2), X(Ctl(2))) \o Opt(Plr(3), X(Ctl(3))) \o
         <<CX(Ctl(1), Ctl(2)), CX(Ctl(3), Ctl(1)), CX(Ctl(3), Tgt),
           MCX(<<Ctl(1), Ctl(2)>>, Tgt), CX(Ctl(3), Ctl(1)), CX(Ctl(1), Ctl(2))>> \o
         Opt(Plr(3), X(Ctl(3))) \o Opt(~Plr(2), X(Ctl(2))) \o Opt(Plr(1), X(Ctl(1)))
    /\ qval[Tgt] = Xor(Before(Tgt), Maj(In(1), In(2), In(3)))

\* a MAJ of three complemented inputs has been expanded
C19_Witness ==
  /\ Expanded("maj")
  /\ ~FirstFaninConstant
  /\ Plr(1) /\ Plr(2) /\ Plr(3)
  /\ Len(qnet.gates) = 10

\* C20: for a MAJ gate whose first fan-in is a constant node the expander
\* emits no majority gadget but the OR gadget on (c2,c3) with their polarities
\* when the constant fan-in is complemented and the AND gadget on (c2,c3)
\* otherwise; MAJ(constant false, a, b) gives the single MCX of AND(a, b)
C20_MajConstantFold ==
  (Expanded("maj") /\ FirstFaninConstant) =>
    /\ qnet.gates =
         IF Plr(1)
         THEN Opt(~Plr(2), X(Ctl(2))) \o Opt(~Plr(3), X(Ctl(3))) \o
              <<MCX(<<Ctl(2), Ctl(3)>>, Tgt), X(Tgt)>> \o
              Opt(~Plr(3), X(Ctl(3))) \o Opt(~Plr(2), X(Ctl(2)))
         ELSE Opt(Plr(2), X(Ctl(2))) \o Opt(Plr(3), X(Ctl(3))) \o
              <<MCX(<<Ctl(2), Ctl(3)>>, Tgt)>> \o
              Opt(Plr(3), X(Ctl(3))) \o Opt(Plr(2), X(Ctl(2)))
    /\ (~Plr(1) /\ ~Plr(2) /\ ~Plr(3)) => qnet.gates = <<MCX(<<Ctl(2), Ctl(3)>>, Tgt)>>

\* a MAJ with the complemented constant first has been expanded into an OR
\* gadget, which ends with the X on the target and the undone flips
C20_Witness ==
  /\ Expanded("maj")
  /\ FirstFaninConstant
  /\ Plr(1) /\ ~Plr(2) /\ Plr(3)
  /\ qnet.gates = <<X(Ctl(2)), MCX(<<Ctl(2), Ctl(3)>>, Tgt), X(Tgt), X(Ctl(2))>>

\* C24: for every gate of kind AND, OR, XOR, XOR3 or MAJ (constant first fan-in
\* included), all polarities and all values of the fan-in qubits and the
\* target, the expander run twice in a row on the same node and target leaves
\* every qubit with the value it had before the first run
C24_ExpandTwiceIsIdentity ==
  pc = "expanded_twice" => \A q \in DOMAIN qval : qval[q] = Before(q)

\* a MAJ of three inputs, the second one complemented, has been expanded twice
\* on a target that holds an input of its own
C24_Witness ==
  /\ pc = "expanded_twice"
  /\ Gate(ntk, ExpandedNode).kind = "maj"
  /\ ~FirstFaninConstant
  /\ ~Plr(1) /\ Plr(2) /\ ~Plr(3)
  /\ Tgt < ntk.num_pis
  /\ Len(qnet.gates) = 12

ExpandedInplace(kind) == pc = "expanded_inplace" /\ Gate(ntk, ExpandedNode).kind = kind

\* the fan-in qubits of the expanded node other than its target, in fan-in order
OtherCtls(is) == SelectSeq([k \in 1..Len(is) |-> Ctl(is[k])], LAMBDA c : c # Tgt)

\* C29: in place, a binary XOR with exactly one fan-in qubit equal to t gives
\* one CX from the other fan-in qubit into t, then X(t) iff inv; an XOR3 with a
\* non-constant first fan-in and exactly one ci equal to t gives CX from each
\* of the two other fan-in qubits into t, in fan-in order, then X(t) iff inv;
\* an XOR3 with a constant first fan-in gives the binary in-place gadget on
\* (c2,c3): one CX from the other of the two when one of them is t, the
\* diagnostic and no CX when neither is, then X(t) iff inv
C29_InplaceGadgets ==
  /\ ExpandedInplace("xor") =>
       /\ Cardinality({i \in 1..2 : Ctl(i) = Tgt}) = 1
       /\ Len(OtherCtls(<<1, 2>>)) = 1
       /\ qnet.gates = <<CX(OtherCtls(<<1, 2>>)[1], Tgt)>> \o Opt(Plr(1) # Plr(2), X(Tgt))
       /\ errs = 0
  /\ (ExpandedInplace("xor3") /\ ~FirstFaninConstant) =>
       /\ Cardinality({i \in 1..3 : Ctl(i) = Tgt}) = 1
       /\ Len(OtherCtls(<<1, 2, 3>>)) = 2
       /\ qnet.gates = <<CX(OtherCtls(<<1, 2, 3>>)[1], Tgt), CX(OtherCtls(<<1, 2, 3>>)[2], Tgt)>> \o
                       Opt((Plr(1) # Plr(2)) # Plr(3), X(Tgt))
       /\ errs = 0
  /\ (ExpandedInplace("xor3") /\ FirstFaninConstant) =>
       IF Tgt \in {Ctl(2), Ctl(3)}
       THEN /\ qnet.gates = <<CX(OtherCtls(<<2, 3>>)[1], Tgt)>> \o
                            Opt((Plr(1) # Plr(2)) # Plr(3), X(Tgt))
            /\ errs = 0
       ELSE /\ qnet.gates = Opt((Plr(1) # Plr(2)) # Plr(3), X(Tgt))
            /\ errs = 1

\* an XOR3 of three inputs, one complemented, has been expanded in place on
\* the qubit of its second fan-in
C29_Witness ==
  /\ ExpandedInplace("xor3")
  /\ ~FirstFaninConstant
  /\ Tgt = Ctl(2)
  /\ ~Plr(1) /\ ~Plr(2) /\ Plr(3)
  /\ qnet.gates = <<CX(Ctl(1), Tgt), CX(Ctl(3), Tgt), X(Tgt)>>

\* C21: for an XOR3 gate whose first fan-in is a constant node the expander
\* emits the two-input XOR gadget on (c2,c3) whose inversion flag combines the
\* constant node's value with the three polarity bits, and the target ends as
\* t XOR (value of the constant fan-in) XOR (c2 XOR p2) XOR (c3 XOR p3),
\* whether the constant node holds false or true
C21_Xor3ConstantFold ==
  (Expanded("xor3") /\ FirstFaninConstant) =>
    LET inv == ((constant_value(ntk, Fanin(ntk, ExpandedNode)[1].index) # Plr(1)) # Plr(2)) # Plr(3)
    IN /\ Emitted = <<CX(Ctl(2), Tgt), CX(Ctl(3), Tgt)>> \o Opt(inv, X(Tgt))
       /\ qval[Tgt] = Xor(Xor(Xor(Before(Tgt), In(1)), In(2)), In(3))

\* C22: for a truth-table node whose table is the parity function the expander
\* emits one CX(c,t) per fan-in qubit c in fan-in order, skipping a c equal to t
\* (also when it is called in place, on the qubit of a fan-in), and never calls
\* the single-target synthesis callback; for any other table it calls the
\* callback exactly once, with the fan-in qubits in order and t last, and emits
\* nothing itself
C22_LutNode ==
  LET k == Len(Fanin(ntk, ExpandedNode))
      parity == node_function(ntk, ExpandedNode) = create_parity(k)
      ctls == [i \in 1..k |-> Ctl(i)]
      others == SelectSeq(ctls, LAMBDA c : c # Tgt)
      block == [i \in 1..Len(others) |-> CX(others[i], Tgt)]
  IN /\ (Expanded("lut") /\ parity) => Emitted = block /\ Len(block) = k
     /\ (Expanded("lut") /\ ~parity) =>
          Emitted = <<Stg(node_function(ntk, ExpandedNode), Append(ctls, Tgt))>>
     /\ (ExpandedInplace("lut") /\ parity) => Emitted = block /\ Len(block) = k - 1

\* a node with the table of AND over two inputs has been expanded: one call of
\* the callback, with the two fan-in qubits and then the target
C22_Witness ==
  /\ Expanded("lut")
  /\ node_function(ntk, ExpandedNode) = {{1, 2}}
  /\ is_pi(ntk, Fanin(ntk, ExpandedNode)[1].index)
  /\ Emitted = <<Stg({{1, 2}}, <<Ctl(1), Ctl(2), Tgt>>)>>
  /\ qval[Tgt] = Xor(Before(Tgt), And(Before(Ctl(1)), Before(Ctl(2))))

\* ---- the in-place mismatch ------------------------------------------------
\* the fan-in qubits the in-place expander compares with the target: all of
\* them, but those of the second and third fan-in for an XOR3 whose first
\* fan-in is a constant
ConsideredQubits(n) ==
  LET f == Fanin(ntk, n)
      from == IF is_xor3(ntk, n) /\ is_constant(ntk, f[1].index) THEN 2 ELSE 1
  IN {node_to_qubit[f[i].index] : i \in from..Len(f)}

\* the next step is an in-place step none of whose considered fan-in qubits is
\* the target qubit
InplaceTargetMismatch ==
  /\ pc = "steps"
  /\ si <= Len(steps)
  /\ steps[si].action \in {"compute_inplace", "uncompute_inplace"}
  /\ node_to_qubit[steps[si].target_index] \notin ConsideredQubits(steps[si].node)

\* C23: an in-place step with a target mismatch writes one diagnostic, emits no
\* CX and is passed like any other step, and the run goes on to execute every
\* later step of the stream and finishes
C23_MismatchReportedWithoutHalting ==
  /\ [][InplaceTargetMismatch =>
          /\ errs' = errs + 1
          /\ \A i \in (Len(qnet.gates) + 1)..Len(qnet'.gates) : qnet'.gates[i].kind # "cx"
          /\ pc' = "steps"
          /\ si' = si + 1]_vars
  /\ InplaceTargetMismatch ~> (pc = "done" /\ si = Len(steps) + 1)

\* a finished in-place run with two diagnostics, in which a gate was computed
\* out of place after the first mismatching step
C23_Witness ==
  /\ pc = "done"
  /\ strategy = "bennett_inplace"
  /\ errs = 2
  /\ si = Len(steps) + 1
  /\ \E i \in 1..Len(steps) : \E j \in 1..Len(steps) :
       /\ i < j
       /\ steps[i].action = "compute_inplace"
       /\ is_constant(ntk, steps[i].target_index)
       /\ steps[j].action = "compute"

\* ---- the pool under any stream ---------------------------------------------
NextIs(action) == pc = "steps" /\ si <= Len(steps) /\ steps[si].action = action

\* C25: the pool is a stack: a release puts the qubit on top; a request with a
\* non-empty pool takes the top, the qubit released last among those not handed
\* out again, and leaves required_ancillae and num_qubits unchanged; a request
\* with an empty pool adds one qubit, returns its index, the previous
\* num_qubits, and increments required_ancillae by exactly 1
C25_PoolIsLifo ==
  /\ [][NextIs("uncompute") =>
          free_ancillae' = Append(free_ancillae, node_to_qubit[steps[si].node])]_vars
  /\ [][NextIs("compute") =>
          IF free_ancillae # <<>>
          THEN /\ node_to_qubit'[steps[si].node] = free_ancillae[Len(free_ancillae)]
               /\ free_ancillae' = SubSeq(free_ancillae, 1, Len(free_ancillae) - 1)
               /\ qnet'.num_qubits = qnet.num_qubits
               /\ st'.required_ancillae = st.required_ancillae
          ELSE /\ node_to_qubit'[steps[si].node] = qnet.num_qubits
               /\ free_ancillae' = <<>>
               /\ qnet'.num_qubits = qnet.num_qubits + 1
               /\ st'.required_ancillae = st.required_ancillae + 1]_vars

\* two gates were uncomputed one after the other and a gate computed next: it
\* got the qubit of the gate uncomputed last, the other one is still in the
\* pool, and no qubit was added for it
C25_Witness ==
  /\ pc = "steps"
  /\ si >= 6
  /\ steps[si - 3].action = "uncompute"
  /\ steps[si - 2].action = "uncompute"
  /\ steps[si - 1].action = "compute"
  /\ steps[si - 1].node # steps[si - 2].node
  /\ node_to_qubit[steps[si - 1].node] = node_to_qubit[steps[si - 2].node]
  /\ Len(free_ancillae) = 1
  /\ free_ancillae[1] # node_to_qubit[steps[si - 1].node]
  /\ st.required_ancillae = 2
  /\ qnet.num_qubits = ntk.num_pis + Cardinality(MaterialisedConstants(ntk)) + 2

\* ---- the Bennett and in-place streams, replayed -----------------------------
StreamBuilt == pc \in {"steps", "done"}

\* the steps of node n strictly between the positions i and j
StepsBetween(n, i, j) == {k \in (i + 1)..(j - 1) : steps[k].node = n}

\* the Compute step an Uncompute step at position u undoes
MatchingCompute(u) ==
  {c \in 1..(u - 1) :
     /\ steps[c].node = steps[u].node
     /\ steps[c].action = "compute"
     /\ StepsBetween(steps[u].node, c, u) = {}}

\* number of steps with the given action among the first i
Rank(action, i) == Cardinality({k \in 1..i : steps[k].action = action})

\* the first qubit after those of the inputs and the constants
FirstAncilla == ntk.num_pis + Cardinality(MaterialisedConstants(ntk))

\* C26: in a Bennett or Bennett-in-place stream every Uncompute(n) has exactly
\* one Compute(n) before it, with no other step of n between the two; no node
\* is computed (in either way) while it is live; and the qubit an executed
\* Uncompute(n) released is the qubit that Compute(n) obtained, which is still
\* n's entry in node_to_qubit
C26_ComputeUncomputePairing ==
  StreamBuilt =>
    /\ \A u \in 1..Len(steps) :
         steps[u].action = "uncompute" =>
           /\ Cardinality(MatchingCompute(u)) = 1
           /\ Cardinality(Positions(steps[u].node, {"compute"}) \cap 1..u) = 1
    /\ \A c \in 1..Len(steps) :
         steps[c].action \in ComputeActions =>
           ~\E b \in 1..(c - 1) :
              /\ steps[b].node = steps[c].node
              /\ steps[b].action \in ComputeActions
              /\ \A k \in StepsBetween(steps[c].node, b, c) :
                   steps[k].action \notin UncomputeActions
    /\ \A c \in Executed :
         steps[c].action = "compute" =>
           node_to_qubit[steps[c].node] = FirstAncilla + Rank("compute", c) - 1
    /\ \A u \in Executed :
         steps[u].action = "uncompute" =>
           /\ free_ancillae[Rank("uncompute", u)] = node_to_qubit[steps[u].node]
           /\ \A c \in MatchingCompute(u) :
                free_ancillae[Rank("uncompute", u)] = FirstAncilla + Rank("compute", c) - 1

\* a finished in-place run on two gates that are computed out of place and
\* drive no output: the gate computed second was uncomputed first, and each
\* released the qubit it had obtained
C26_Witness ==
  /\ pc = "done"
  /\ strategy = "bennett_inplace"
  /\ Len(steps) = 4
  /\ steps[3].action = "uncompute" /\ steps[4].action = "uncompute"
  /\ free_ancillae = <<FirstAncilla + 1, FirstAncilla>>

\* ---- the walks of the two strategies ----------------------------------------
GatesOf(s) == SelectSeq(s, LAMBDA n : is_gate(ntk, n))

\* the gates with a step in the list
GatesWithSteps == {steps[i].node : i \in 1..Len(steps)}

\* C27 as stated: the in-place strategy walks the nodes as the Bennett strategy
\* does, in the order of the topological view rooted at the primary outputs,
\* and in either strategy a gate that no primary output reaches has no step
C27_SameWalk ==
  ListBuilt =>
    /\ GatesOf(order) = GatesOf(topo_view(ntk))
    /\ GatesWithSteps \subseteq ReachableGates(ntk)

\* C27 amended: the Bennett strategy walks the topological view, so exactly the
\* gates some primary output reaches have steps; the in-place strategy walks
\* all nodes of the network in index order, so every gate has steps, reached
\* by an output or not, and the gates both walks visit need not come in the
\* same order
C27_InplaceWalksAllNodes ==
  ListBuilt =>
    IF strategy = "bennett"
    THEN /\ order = topo_view(ntk)
         /\ GatesWithSteps = ReachableGates(ntk)
    ELSE /\ order = [i \in 1..size(ntk) |-> i - 1]
         /\ GatesWithSteps = Gates(ntk)
         /\ \A n \in Gates(ntk) : Cardinality(Positions(n, ComputeActions)) = 1

\* an in-place list with steps for a gate that no output reaches, on a network
\* whose topological view visits the two other gates against their index order
C27_Witness ==
  /\ ListBuilt
  /\ strategy = "bennett_inplace"
  /\ Gates(ntk) \ ReachableGates(ntk) # {}
  /\ GatesWithSteps = Gates(ntk)
  /\ \E i \in 1..Len(topo_view(ntk)) : \E j \in 1..Len(topo_view(ntk)) :
       /\ i < j
       /\ is_gate(ntk, topo_view(ntk)[i])
       /\ topo_view(ntk)[i] > topo_view(ntk)[j]

\* ---- the in-place steps in the driver --------------------------------------
\* C28 as stated: ComputeInplace{target=m} for node n maps n to the qubit m was
\* mapped to and leaves m no longer mapped to it; it requests no ancilla and
\* leaves required_ancillae, num_qubits and the pool unchanged, and so does
\* UncomputeInplace
C28_InplaceTransfersQubit ==
  /\ [][NextIs("compute_inplace") =>
          /\ node_to_qubit'[steps[si].node] = node_to_qubit[steps[si].target_index]
          /\ node_to_qubit'[steps[si].target_index] # node_to_qubit[steps[si].target_index]
          /\ st' = st /\ qnet'.num_qubits = qnet.num_qubits
          /\ free_ancillae' = free_ancillae]_vars
  /\ [][NextIs("uncompute_inplace") =>
          /\ st' = st /\ qnet'.num_qubits = qnet.num_qubits
          /\ free_ancillae' = free_ancillae]_vars

\* C28 amended: ComputeInplace{target=m} for node n sets n's entry to the qubit
\* of m and changes no other entry, so that m and n are both mapped to that
\* qubit; it requests no ancilla and leaves required_ancillae, num_qubits and
\* the pool unchanged; UncomputeInplace changes no entry, requests and
\* releases nothing
C28_InplaceSharesQubit ==
  /\ [][NextIs("compute_inplace") =>
          /\ node_to_qubit'[steps[si].node] = node_to_qubit[steps[si].target_index]
          /\ \A k \in Nodes(ntk) \ {steps[si].node} : node_to_qubit'[k] = node_to_qubit[k]
          /\ st' = st /\ qnet'.num_qubits = qnet.num_qubits
          /\ free_ancillae' = free_ancillae]_vars
  /\ [][NextIs("uncompute_inplace") =>
          /\ node_to_qubit' = node_to_qubit
          /\ st' = st /\ qnet'.num_qubits = qnet.num_qubits
          /\ free_ancillae' = free_ancillae]_vars

\* a finished run in which a gate was computed in place on the qubit of a gate
\* computed out of place before it, and uncomputed in place: both gates have
\* that qubit as their entry
C28_Witness ==
  /\ pc = "done"
  /\ \E i \in 1..Len(steps) : \E j \in 1..Len(steps) :
       /\ i < j
       /\ steps[i].action = "compute_inplace"
       /\ steps[j].action = "uncompute_inplace"
       /\ steps[j].node = steps[i].node
       /\ is_gate(ntk, steps[i].target_index)
       /\ node_to_qubit[steps[i].node] = node_to_qubit[steps[i].target_index]
       /\ node_to_qubit[steps[i].node] = FirstAncilla

\* ---- the qubits of inputs and constants -------------------------------------
\* C30: the primary inputs have the qubits 0, 1, ... in the network's iteration
\* order, below the qubit of every constant and every ancilla, and from the
\* preparation on no step changes the entry of a primary input or of a
\* constant with a qubit
C30_InputsMappedFirstAndForGood ==
  /\ [](Prepared =>
          /\ \A n \in Pis(ntk) : node_to_qubit[n] = n - ntk.num_constants
          /\ \A n \in MaterialisedConstants(ntk) : node_to_qubit[n] >= ntk.num_pis
          /\ \A n \in MaterialisedConstants(ntk) : node_to_qubit[n] < FirstAncilla
          /\ \A n \in RequestedFor : node_to_qubit[n] >= FirstAncilla)
  /\ [][Prepared =>
          \A n \in Pis(ntk) \cup MaterialisedConstants(ntk) :
            node_to_qubit'[n] = node_to_qubit[n]]_vars

\* a finished in-place run with a qubit for the constant, in which a gate was
\* computed in place on the qubit of the second input and another gate got an
\* ancilla
C30_Witness ==
  /\ pc = "done"
  /\ ntk.num_pis = 2
  /\ MaterialisedConstants(ntk) = {0}
  /\ node_to_qubit[0] = 2
  /\ st.required_ancillae = 1
  /\ \E i \in 1..Len(steps) :
       /\ steps[i].action = "compute_inplace"
       /\ steps[i].target_index = 2
       /\ node_to_qubit[steps[i].node] = 1

\* ---- the in-place strategy and the in-place expander ------------------------
\* C31: in a Bennett-in-place run the target qubit of every ComputeInplace and
\* UncomputeInplace step is, when the step is executed, the qubit of one of the
\* fan-ins the in-place gadget compares it with, so that no diagnostic is ever
\* written; also for an XOR3 gate whose constant first fan-in is the fan-in
\* whose counter reaches zero
C31_InplaceNeverMismatches ==
  strategy = "bennett_inplace" => (~InplaceTargetMismatch /\ errs = 0)

\* ---- the frame of the out-of-place gadgets ----------------------------------
\* the fan-in qubits of the expanded node are pairwise distinct
DistinctCtls ==
  \A i, j \in 1..Len(Fanin(ntk, ExpandedNode)) : i # j => Ctl(i) # Ctl(j)

\* the emitted gates that act on a qubit other than the target
FaninWrites == {i \in 1..Len(Emitted) : Emitted[i].target # Tgt}

\* C33: an out-of-place expansion of an AND, OR, XOR, XOR3 or MAJ node whose
\* fan-in qubits are distinct and differ from the target leaves every qubit but
\* the target with the value it had before, although the AND, OR and MAJ
\* gadgets write fan-in qubits in between
C33_OnlyTargetChanges ==
  (/\ pc = "expanded"
   /\ Gate(ntk, ExpandedNode).kind \in {"and", "or", "xor", "xor3", "maj"}
   /\ DistinctCtls
   /\ \A i \in 1..Len(Fanin(ntk, ExpandedNode)) : Ctl(i) # Tgt)
  => \A q \in DOMAIN qval \ {Tgt} : qval[q] = Before(q)

\* a MAJ gadget with three input fan-ins has written fan-in qubits, and its
\* target no longer holds what it held
C33_Witness ==
  /\ Expanded("maj")
  /\ ~FirstFaninConstant
  /\ DistinctCtls
  /\ \E i \in FaninWrites : Emitted[i].kind = "cx"
  /\ \E i \in FaninWrites : Emitted[i].kind = "pauli_x"
  /\ qval[Tgt] # Before(Tgt)
  /\ \A q \in DOMAIN qval \ {Tgt} : qval[q] = Before(q)

\* ---- the ancilla statistic ---------------------------------------------------
\* ancillae requested and not released after the first i steps
Outstanding(i) == Rank("compute", i) - Rank("uncompute", i)

\* the largest number of ancillae outstanding at once during the first i steps
PeakOutstanding(i) ==
  CHOOSE m \in 0..i :
    /\ \E j \in 0..i : Outstanding(j) = m
    /\ \A j \in 0..i : Outstanding(j) <= m

\* C34: at every point of a run over a stream of Compute and Uncompute steps
\* in which each Uncompute releases the qubit of a gate computed earlier and
\* not yet released, required_ancillae is the size of the free pool plus the
\* number of ancillae requested and not released; it never decreases, and it
\* is the peak number of ancillae outstanding at once
C34_RequiredIsPoolPlusOutstanding ==
  /\ [](st.required_ancillae = Len(free_ancillae) + Outstanding(si - 1))
  /\ [](st.required_ancillae = PeakOutstanding(si - 1))
  /\ [][st'.required_ancillae >= st.required_ancillae]_vars

\* a finished run of three Compute steps and two Uncompute steps in which a
\* released qubit was handed out again: two ancillae sufficed, one is in the
\* pool and one holds the output
C34_Witness ==
  /\ pc = "done"
  /\ strategy = "custom"
  /\ Rank("compute", Len(steps)) = 3
  /\ Rank("uncompute", Len(steps)) = 2
  /\ st.required_ancillae = 2
  /\ Len(free_ancillae) = 1
  /\ Outstanding(Len(steps)) = 1

\* ---- the inputs across a run -------------------------------------------------
\* the value of primary input n over the input assignments
InputValue(n) == {a \in Assignments(ntk) : n \in a}

\* the qubit of primary input n holds the input
HoldsInput(n) == qval[node_to_qubit[n]] = InputValue(n)

\* the primary inputs the step about to be executed reads as inputs: the
\* fan-ins of its node, but for the target of an UncomputeInplace step, whose
\* qubit holds the node's value and is about to be restored
ReadAsInput ==
  IF pc = "steps" /\ si <= Len(steps)
  THEN {n \in Pis(ntk) \cap FaninNodes(ntk, steps[si].node) :
          ~(steps[si].action = "uncompute_inplace" /\ steps[si].target_index = n)}
  ELSE {}

\* C32: at the end of a Bennett or Bennett-in-place run the qubit of every
\* primary input holds the input again, for every input assignment, and during
\* the run every step finds the inputs it reads on their qubits: an input
\* overwritten by ComputeInplace is restored by the matching UncomputeInplace
\* before a later step reads it
C32_InputsRestored ==
  strategy \in {"bennett", "bennett_inplace"} =>
    /\ pc = "done" => \A n \in Pis(ntk) : HoldsInput(n)
    /\ \A n \in ReadAsInput : HoldsInput(n)

\* a finished in-place run in which the qubit of an input was overwritten by a
\* ComputeInplace step, a later step computed a gate from the overwritten
\* qubit, and the input is back on its qubit
C32_Witness ==
  /\ pc = "done"
  /\ strategy = "bennett_inplace"
  /\ \E i, j, k \in Executed :
       /\ i < j /\ j < k
       /\ steps[i].action = "compute_inplace"
       /\ is_pi(ntk, steps[i].target_index)
       /\ steps[j].action = "compute"
       /\ steps[i].node \in FaninNodes(ntk, steps[j].node)
       /\ steps[k] = InplaceStep(steps[i].node, "uncompute_inplace", steps[i].target_index)
       /\ HoldsInput(steps[i].target_index)
  /\ \A n \in Pis(ntk) : HoldsInput(n)

====
